---------------------------- MODULE Spec2Model ----------------------------
(***************************************************************************)
(* A model of minimotif (src/src/minimotif.c): a scanner that reports the  *)
(* windows of DNA/RNA sequences whose PWM score reaches a p-value          *)
(* threshold.  The model follows one run of main(): option parsing, motif  *)
(* loading, sequence loading, and the per-motif loop fill_cdf /            *)
(* set_threshold / score_seq / free.                                       *)
(*                                                                         *)
(* Numbers.  C ints are TLA+ integers.  C doubles that hold probabilities  *)
(* are exact rationals: a background is four numerators over one           *)
(* denominator, a CDF is an array of numerators over one denominator.      *)
(* The one transcendental step, log2 in calc_score, is tabulated: the      *)
(* table Log2Milli holds, for every argument the model's inputs produce,   *)
(* the value the C expression (int)(log2(x / bkg) * 1000.0) has in IEEE    *)
(* double arithmetic.                                                      *)
(***************************************************************************)
EXTENDS Integers, Sequences, FiniteSets, TLC

(***************************************************************************)
(* Program constants.                                                      *)
(***************************************************************************)
MAX_NAME_SIZE == 256
SEQ_NAME_MAX_CHAR == 256

MAX_MOTIF_SIZE == 250
AMBIGUITY_SCORE == -10000000
MAX_CDF_SIZE == 2097152
DEFAULT_NSITES == 1000
DEFAULT_PSEUDOCOUNT == 1
INT_MAX == 2147483647

INT_MIN == -INT_MAX - 1
\* MAX_MOTIF_SIZE / 5: the largest motif width the program documents.
MaxPositions == MAX_MOTIF_SIZE \div 5


(***************************************************************************)
(* Lookup tables of the source, copied entry by entry.  C indexes them     *)
(* from 0; Char2Index and Consensus2Index add the 1 a TLA+ tuple needs.    *)
(***************************************************************************)
char2index ==
  << 4, 4, 4, 4, 4, 4, 4, 4, 4, 4, 4, 4, 4, 4, 4, 4,
     4, 4, 4, 4, 4, 4, 4, 4, 4, 4, 4, 4, 4, 4, 4, 4,
     4, 4, 4, 4, 4, 4, 4, 4, 4, 4, 4, 4, 4, 4, 4, 4,
     4, 4, 4, 4, 4, 4, 4, 4, 4, 4, 4, 4, 4, 4, 4, 4,
     4, 0, 4, 1, 4, 4, 4, 2, 4, 4, 4, 4, 4, 4, 4, 4,
     4, 4, 4, 4, 3, 3, 4, 4, 4, 4, 4, 4, 4, 4, 4, 4,
     4, 0, 4, 1, 4, 4, 4, 2, 4, 4, 4, 4, 4, 4, 4, 4,
     4, 4, 4, 4, 3, 3, 4, 4, 4, 4, 4, 4, 4, 4, 4, 4,
     4, 4, 4, 4, 4, 4, 4, 4, 4, 4, 4, 4, 4, 4, 4, 4,
     4, 4, 4, 4, 4, 4, 4, 4, 4, 4, 4, 4, 4, 4, 4, 4,
     4, 4, 4, 4, 4, 4, 4, 4, 4, 4, 4, 4, 4, 4, 4, 4,
     4, 4, 4, 4, 4, 4, 4, 4, 4, 4, 4, 4, 4, 4, 4, 4,
     4, 4, 4, 4, 4, 4, 4, 4, 4, 4, 4, 4, 4, 4, 4, 4,
     4, 4, 4, 4, 4, 4, 4, 4, 4, 4, 4, 4, 4, 4, 4, 4,
     4, 4, 4, 4, 4, 4, 4, 4, 4, 4, 4, 4, 4, 4, 4, 4,
     4, 4, 4, 4, 4, 4, 4, 4, 4, 4, 4, 4, 4, 4, 4, 4 >>

consensus2index ==
  << -1, -1, -1, -1, -1, -1, -1, -1, -1, -1, -1, -1, -1, -1, -1, -1,
     -1, -1, -1, -1, -1, -1, -1, -1, -1, -1, -1, -1, -1, -1, -1, -1,
     -1, -1, -1, -1, -1, -1, -1, -1, -1, -1, -1, -1, -1, -1, -1, -1,
     -1, -1, -1, -1, -1, -1, -1, -1, -1, -1, -1, -1, -1, -1, -1, -1,
     -1, 0, 13, 1, 10, -1, -1, 2, 12, -1, -1, 8, -1, 9, 14, -1,
     -1, -1, 5, 7, 3, 3, 11, 6, -1, 4, -1, -1, -1, -1, -1, -1,
     -1, 0, 13, 1, 10, -1, -1, 2, 12, -1, -1, 8, -1, 9, 14, -1,
     -1, -1, 5, 7, 3, 3, 11, 6, -1, 4, -1, -1, -1, -1, -1, -1,
     -1, -1, -1, -1, -1, -1, -1, -1, -1, -1, -1, -1, -1, -1, -1, -1,
     -1, -1, -1, -1, -1, -1, -1, -1, -1, -1, -1, -1, -1, -1, -1, -1,
     -1, -1, -1, -1, -1, -1, -1, -1, -1, -1, -1, -1, -1, -1, -1, -1,
     -1, -1, -1, -1, -1, -1, -1, -1, -1, -1, -1, -1, -1, -1, -1, -1,
     -1, -1, -1, -1, -1, -1, -1, -1, -1, -1, -1, -1, -1, -1, -1, -1,
     -1, -1, -1, -1, -1, -1, -1, -1, -1, -1, -1, -1, -1, -1, -1, -1,
     -1, -1, -1, -1, -1, -1, -1, -1, -1, -1, -1, -1, -1, -1, -1, -1,
     -1, -1, -1, -1, -1, -1, -1, -1, -1, -1, -1, -1, -1, -1, -1, -1 >>

consensus2probs ==
  << 1000, 0, 0, 0,
     0, 1000, 0, 0,
     0, 0, 1000, 0,
     0, 0, 0, 1000,
     0, 500, 0, 500,
     500, 0, 500, 0,
     500, 0, 0, 500,
     0, 500, 500, 0,
     0, 0, 500, 500,
     500, 500, 0, 0,
     333, 0, 333, 333,
     333, 333, 333, 0,
     333, 333, 0, 333,
     0, 333, 333, 333,
     250, 250, 250, 250 >>

\* char2index with the lower-case letters among the other bytes: C16 does
\* not hold of it
Char2IndexUpperOnly(b) == IF b \in 97..122 THEN 4 ELSE char2index[b + 1]

Char2Index(b) == char2index[b + 1]

Consensus2Index(b) == consensus2index[b + 1]

(***************************************************************************)
(* Exact rationals <<n, d>> with d > 0, kept in lowest terms.  They stand  *)
(* for the doubles that hold probabilities and p-values.                   *)
(***************************************************************************)
Abs(x) == IF x < 0 THEN -x ELSE x

\* f as an explicit table of its values: TLC then computes each value once
\* instead of at every use of f
Table(f) == f @@ <<>>

RECURSIVE GCD(_, _)
GCD(a, b) == IF b = 0 THEN a ELSE GCD(b, a % b)

Rat(n, d) ==
  LET g == GCD(Abs(n), Abs(d))
      s == IF d < 0 THEN -1 ELSE 1
  IN  IF g = 0 THEN <<0, 1>> ELSE <<s * (n \div g), s * (d \div g)>>

RAdd(x, y) == Rat(x[1] * y[2] + y[1] * x[2], x[2] * y[2])
RSub(x, y) == Rat(x[1] * y[2] - y[1] * x[2], x[2] * y[2])
RMul(x, y) == Rat(x[1] * y[1], x[2] * y[2])
RDiv(x, y) == Rat(x[1] * y[2], x[2] * y[1])
RLess(x, y) == x[1] * y[2] < y[1] * x[2]
RLeq(x, y) == x[1] * y[2] <= y[1] * x[2]
RAbs(x) == <<Abs(x[1]), x[2]>>
ROne == <<1, 1>>
RZero == <<0, 1>>

RSum4(v) == RAdd(RAdd(v[1], v[2]), RAdd(v[3], v[4]))

\* VEC_MIN over four values
RMin4(v) ==
  LET m12 == IF RLess(v[2], v[1]) THEN v[2] ELSE v[1]
      m34 == IF RLess(v[4], v[3]) THEN v[4] ELSE v[3]
  IN  IF RLess(m34, m12) THEN m34 ELSE m12

MIN_BKG_VALUE == <<1, 1000>>
DEFAULT_PVALUE == <<1, 100000>>
UniformBkg == << <<1, 4>>, <<1, 4>>, <<1, 4>>, <<1, 4>> >>
\* the "no value parsed" mark of parse_user_bkg and get_meme_bkg
NoValue == <<-1, 1>>

(***************************************************************************)
(* Background validation.                                                  *)
(***************************************************************************)
\* check_and_load_bkg: bkg is the four parsed values.  The result says
\* whether the function returned 0 and what it stored in args.bkg.
CheckAndLoadBkg(bkg) ==
  IF \E i \in 1..4 : bkg[i] = NoValue
    THEN [ok |-> FALSE, bkg |-> bkg]
    ELSE LET min == RMin4(bkg)
             adj == IF RLess(min, MIN_BKG_VALUE)
                      THEN [i \in 1..4 |-> RAdd(bkg[i], MIN_BKG_VALUE)]
                      ELSE bkg
             sum == RSum4(adj)
         IN  [ok |-> TRUE, bkg |-> [i \in 1..4 |-> RDiv(adj[i], sum)]]

\* parse_user_bkg: fields are the comma-separated values of -b, already
\* converted by atof.  Every comma stores the field before it in b[bi]; the
\* text after the last comma always lands in b[3].
ParseUserBkg(fields) ==
  IF Len(fields) > 4
    THEN [ok |-> FALSE, bkg |-> UniformBkg]
    ELSE LET b == [i \in 1..4 |->
                     IF i = 4 THEN fields[Len(fields)]
                     ELSE IF i < Len(fields) THEN fields[i] ELSE NoValue]
         IN  CheckAndLoadBkg(b)

\* calc_score tabulated: the value of the C expression in IEEE doubles for
\* every (prob_i, bkg_i, nsites, pseudocount) the inputs below lead to.
Log2Milli ==
  <<<<0, 1>>, <<1, 1004>>, 1000, 1>> :> -1995
  @@ <<<<0, 1>>, <<1, 1000>>, 1000, 1>> :> -2001
  @@ <<<<0, 1>>, <<1, 10>>, 1000, 1>> :> -8645
  @@ <<<<0, 1>>, <<1, 5>>, 1000, 1>> :> -9645
  @@ <<<<0, 1>>, <<1, 4>>, 1000, 1>> :> -9967
  @@ <<<<0, 1>>, <<301, 1004>>, 1000, 1>> :> -10229
  @@ <<<<0, 1>>, <<3, 10>>, 1000, 1>> :> -10230
  @@ <<<<0, 1>>, <<401, 1004>>, 1000, 1>> :> -10643
  @@ <<<<0, 1>>, <<2, 5>>, 1000, 1>> :> -10645
  @@ <<<<0, 1>>, <<997, 1000>>, 1000, 1>> :> -11962
  @@ <<<<1, 100>>, <<1, 1004>>, 1000, 1>> :> 3361
  @@ <<<<1, 100>>, <<1, 1000>>, 1000, 1>> :> 3356
  @@ <<<<1, 100>>, <<1, 10>>, 1000, 1>> :> -3287
  @@ <<<<1, 100>>, <<1, 5>>, 1000, 1>> :> -4287
  @@ <<<<1, 100>>, <<1, 4>>, 1000, 1>> :> -4609
  @@ <<<<1, 100>>, <<301, 1004>>, 1000, 1>> :> -4871
  @@ <<<<1, 100>>, <<3, 10>>, 1000, 1>> :> -4872
  @@ <<<<1, 100>>, <<401, 1004>>, 1000, 1>> :> -5285
  @@ <<<<1, 100>>, <<2, 5>>, 1000, 1>> :> -5287
  @@ <<<<1, 100>>, <<997, 1000>>, 1000, 1>> :> -6605
  @@ <<<<123, 500>>, <<1, 1004>>, 1000, 1>> :> 7948
  @@ <<<<123, 500>>, <<1, 1000>>, 1000, 1>> :> 7942
  @@ <<<<123, 500>>, <<1, 10>>, 1000, 1>> :> 1298
  @@ <<<<123, 500>>, <<1, 5>>, 1000, 1>> :> 298
  @@ <<<<123, 500>>, <<1, 4>>, 1000, 1>> :> -23
  @@ <<<<123, 500>>, <<301, 1004>>, 1000, 1>> :> -285
  @@ <<<<123, 500>>, <<3, 10>>, 1000, 1>> :> -286
  @@ <<<<123, 500>>, <<401, 1004>>, 1000, 1>> :> -699
  @@ <<<<123, 500>>, <<2, 5>>, 1000, 1>> :> -701
  @@ <<<<123, 500>>, <<997, 1000>>, 1000, 1>> :> -2018
  @@ <<<<156, 625>>, <<1, 1004>>, 1000, 1>> :> 7969
  @@ <<<<156, 625>>, <<1, 1000>>, 1000, 1>> :> 7963
  @@ <<<<156, 625>>, <<1, 10>>, 1000, 1>> :> 1319
  @@ <<<<156, 625>>, <<1, 5>>, 1000, 1>> :> 319
  @@ <<<<156, 625>>, <<1, 4>>, 1000, 1>> :> -2
  @@ <<<<156, 625>>, <<301, 1004>>, 1000, 1>> :> -264
  @@ <<<<156, 625>>, <<3, 10>>, 1000, 1>> :> -265
  @@ <<<<156, 625>>, <<401, 1004>>, 1000, 1>> :> -678
  @@ <<<<156, 625>>, <<2, 5>>, 1000, 1>> :> -680
  @@ <<<<156, 625>>, <<997, 1000>>, 1000, 1>> :> -1997
  @@ <<<<1249, 5000>>, <<1, 1004>>, 1000, 1>> :> 7970
  @@ <<<<1249, 5000>>, <<1, 1000>>, 1000, 1>> :> 7964
  @@ <<<<1249, 5000>>, <<1, 10>>, 1000, 1>> :> 1320
  @@ <<<<1249, 5000>>, <<1, 5>>, 1000, 1>> :> 320
  @@ <<<<1249, 5000>>, <<1, 4>>, 1000, 1>> :> -1
  @@ <<<<1249, 5000>>, <<301, 1004>>, 1000, 1>> :> -263
  @@ <<<<1249, 5000>>, <<3, 10>>, 1000, 1>> :> -264
  @@ <<<<1249, 5000>>, <<401, 1004>>, 1000, 1>> :> -677
  @@ <<<<1249, 5000>>, <<2, 5>>, 1000, 1>> :> -679
  @@ <<<<1249, 5000>>, <<997, 1000>>, 1000, 1>> :> -1996
  @@ <<<<1, 4>>, <<1, 1004>>, 1000, 1>> :> 7971
  @@ <<<<1, 4>>, <<1, 1000>>, 1000, 1>> :> 7965
  @@ <<<<1, 4>>, <<1, 10>>, 1000, 1>> :> 1321
  @@ <<<<1, 4>>, <<1, 5>>, 1000, 1>> :> 321
  @@ <<<<1, 4>>, <<1, 4>>, 1000, 1>> :> 0
  @@ <<<<1, 4>>, <<301, 1004>>, 1000, 1>> :> -262
  @@ <<<<1, 4>>, <<3, 10>>, 1000, 1>> :> -263
  @@ <<<<1, 4>>, <<401, 1004>>, 1000, 1>> :> -675
  @@ <<<<1, 4>>, <<2, 5>>, 1000, 1>> :> -678
  @@ <<<<1, 4>>, <<997, 1000>>, 1000, 1>> :> -1995
  @@ <<<<1251, 5000>>, <<1, 1004>>, 1000, 1>> :> 7972
  @@ <<<<1251, 5000>>, <<1, 1000>>, 1000, 1>> :> 7966
  @@ <<<<1251, 5000>>, <<1, 10>>, 1000, 1>> :> 1323
  @@ <<<<1251, 5000>>, <<1, 5>>, 1000, 1>> :> 323
  @@ <<<<1251, 5000>>, <<1, 4>>, 1000, 1>> :> 1
  @@ <<<<1251, 5000>>, <<301, 1004>>, 1000, 1>> :> -260
  @@ <<<<1251, 5000>>, <<3, 10>>, 1000, 1>> :> -261
  @@ <<<<1251, 5000>>, <<401, 1004>>, 1000, 1>> :> -674
  @@ <<<<1251, 5000>>, <<2, 5>>, 1000, 1>> :> -676
  @@ <<<<1251, 5000>>, <<997, 1000>>, 1000, 1>> :> -1994
  @@ <<<<313, 1250>>, <<1, 1004>>, 1000, 1>> :> 7973
  @@ <<<<313, 1250>>, <<1, 1000>>, 1000, 1>> :> 7968
  @@ <<<<313, 1250>>, <<1, 10>>, 1000, 1>> :> 1324
  @@ <<<<313, 1250>>, <<1, 5>>, 1000, 1>> :> 324
  @@ <<<<313, 1250>>, <<1, 4>>, 1000, 1>> :> 2
  @@ <<<<313, 1250>>, <<301, 1004>>, 1000, 1>> :> -259
  @@ <<<<313, 1250>>, <<3, 10>>, 1000, 1>> :> -260
  @@ <<<<313, 1250>>, <<401, 1004>>, 1000, 1>> :> -673
  @@ <<<<313, 1250>>, <<2, 5>>, 1000, 1>> :> -675
  @@ <<<<313, 1250>>, <<997, 1000>>, 1000, 1>> :> -1993
  @@ <<<<127, 500>>, <<1, 1004>>, 1000, 1>> :> 7994
  @@ <<<<127, 500>>, <<1, 1000>>, 1000, 1>> :> 7988
  @@ <<<<127, 500>>, <<1, 10>>, 1000, 1>> :> 1344
  @@ <<<<127, 500>>, <<1, 5>>, 1000, 1>> :> 344
  @@ <<<<127, 500>>, <<1, 4>>, 1000, 1>> :> 22
  @@ <<<<127, 500>>, <<301, 1004>>, 1000, 1>> :> -239
  @@ <<<<127, 500>>, <<3, 10>>, 1000, 1>> :> -240
  @@ <<<<127, 500>>, <<401, 1004>>, 1000, 1>> :> -653
  @@ <<<<127, 500>>, <<2, 5>>, 1000, 1>> :> -655
  @@ <<<<127, 500>>, <<997, 1000>>, 1000, 1>> :> -1972
  @@ <<<<13, 50>>, <<1, 1004>>, 1000, 1>> :> 8028
  @@ <<<<13, 50>>, <<1, 1000>>, 1000, 1>> :> 8022
  @@ <<<<13, 50>>, <<1, 10>>, 1000, 1>> :> 1378
  @@ <<<<13, 50>>, <<1, 5>>, 1000, 1>> :> 378
  @@ <<<<13, 50>>, <<1, 4>>, 1000, 1>> :> 56
  @@ <<<<13, 50>>, <<301, 1004>>, 1000, 1>> :> -205
  @@ <<<<13, 50>>, <<3, 10>>, 1000, 1>> :> -206
  @@ <<<<13, 50>>, <<401, 1004>>, 1000, 1>> :> -619
  @@ <<<<13, 50>>, <<2, 5>>, 1000, 1>> :> -621
  @@ <<<<13, 50>>, <<997, 1000>>, 1000, 1>> :> -1939
  @@ <<<<333, 1000>>, <<1, 1004>>, 1000, 1>> :> 8384
  @@ <<<<333, 1000>>, <<1, 1000>>, 1000, 1>> :> 8379
  @@ <<<<333, 1000>>, <<1, 10>>, 1000, 1>> :> 1735
  @@ <<<<333, 1000>>, <<1, 5>>, 1000, 1>> :> 735
  @@ <<<<333, 1000>>, <<1, 4>>, 1000, 1>> :> 413
  @@ <<<<333, 1000>>, <<301, 1004>>, 1000, 1>> :> 151
  @@ <<<<333, 1000>>, <<3, 10>>, 1000, 1>> :> 150
  @@ <<<<333, 1000>>, <<401, 1004>>, 1000, 1>> :> -262
  @@ <<<<333, 1000>>, <<2, 5>>, 1000, 1>> :> -264
  @@ <<<<333, 1000>>, <<997, 1000>>, 1000, 1>> :> -1582
  @@ <<<<1, 2>>, <<1, 1004>>, 1000, 1>> :> 8970
  @@ <<<<1, 2>>, <<1, 1000>>, 1000, 1>> :> 8965
  @@ <<<<1, 2>>, <<1, 10>>, 1000, 1>> :> 2321
  @@ <<<<1, 2>>, <<1, 5>>, 1000, 1>> :> 1321
  @@ <<<<1, 2>>, <<1, 4>>, 1000, 1>> :> 999
  @@ <<<<1, 2>>, <<301, 1004>>, 1000, 1>> :> 737
  @@ <<<<1, 2>>, <<3, 10>>, 1000, 1>> :> 736
  @@ <<<<1, 2>>, <<401, 1004>>, 1000, 1>> :> 323
  @@ <<<<1, 2>>, <<2, 5>>, 1000, 1>> :> 321
  @@ <<<<1, 2>>, <<997, 1000>>, 1000, 1>> :> -996
  @@ <<<<97, 100>>, <<1, 1004>>, 1000, 1>> :> 9926
  @@ <<<<97, 100>>, <<1, 1000>>, 1000, 1>> :> 9920
  @@ <<<<97, 100>>, <<1, 10>>, 1000, 1>> :> 3276
  @@ <<<<97, 100>>, <<1, 5>>, 1000, 1>> :> 2276
  @@ <<<<97, 100>>, <<1, 4>>, 1000, 1>> :> 1954
  @@ <<<<97, 100>>, <<301, 1004>>, 1000, 1>> :> 1692
  @@ <<<<97, 100>>, <<3, 10>>, 1000, 1>> :> 1691
  @@ <<<<97, 100>>, <<401, 1004>>, 1000, 1>> :> 1279
  @@ <<<<97, 100>>, <<2, 5>>, 1000, 1>> :> 1276
  @@ <<<<97, 100>>, <<997, 1000>>, 1000, 1>> :> -40
  @@ <<<<1, 1>>, <<1, 1004>>, 1000, 1>> :> 9970
  @@ <<<<1, 1>>, <<1, 1000>>, 1000, 1>> :> 9964
  @@ <<<<1, 1>>, <<1, 10>>, 1000, 1>> :> 3320
  @@ <<<<1, 1>>, <<1, 5>>, 1000, 1>> :> 2320
  @@ <<<<1, 1>>, <<1, 4>>, 1000, 1>> :> 1998
  @@ <<<<1, 1>>, <<301, 1004>>, 1000, 1>> :> 1736
  @@ <<<<1, 1>>, <<3, 10>>, 1000, 1>> :> 1735
  @@ <<<<1, 1>>, <<401, 1004>>, 1000, 1>> :> 1323
  @@ <<<<1, 1>>, <<2, 5>>, 1000, 1>> :> 1320
  @@ <<<<1, 1>>, <<997, 1000>>, 1000, 1>> :> 3
  @@ <<<<251, 2500>>, <<1, 4>>, 1000, 1>> :> -1314
  @@ <<<<251, 2251>>, <<1, 4>>, 1000, 1>> :> -1163
  @@ <<<<449, 2500>>, <<1, 4>>, 1000, 1>> :> -476
  @@ <<<<451, 2500>>, <<1, 4>>, 1000, 1>> :> -470
  @@ <<<<500, 2749>>, <<1, 4>>, 1000, 1>> :> -458
  @@ <<<<449, 2449>>, <<1, 4>>, 1000, 1>> :> -446
  @@ <<<<500, 2551>>, <<1, 4>>, 1000, 1>> :> -350
  @@ <<<<1, 5>>, <<1, 4>>, 1000, 1>> :> -321
  @@ <<<<500, 2449>>, <<1, 4>>, 1000, 1>> :> -291
  @@ <<<<551, 2551>>, <<1, 4>>, 1000, 1>> :> -210
  @@ <<<<549, 2500>>, <<1, 4>>, 1000, 1>> :> -186
  @@ <<<<551, 2500>>, <<1, 4>>, 1000, 1>> :> -181
  @@ <<<<500, 2251>>, <<1, 4>>, 1000, 1>> :> -170
  @@ <<<<749, 2749>>, <<1, 4>>, 1000, 1>> :> 124
  @@ <<<<749, 2500>>, <<1, 4>>, 1000, 1>> :> 260
  @@ <<<<1000, 2749>>, <<1, 4>>, 1000, 1>> :> 540
  @@ <<<<1000, 2551>>, <<1, 4>>, 1000, 1>> :> 648
  @@ <<<<2, 5>>, <<1, 4>>, 1000, 1>> :> 677
  @@ <<<<1000, 2449>>, <<1, 4>>, 1000, 1>> :> 707
  @@ <<<<1000, 2251>>, <<1, 4>>, 1000, 1>> :> 828
  @@ <<<<0, 1>>, <<997, 1000>>, 2000000000, 1>> :> -32893
  @@ <<<<0, 1>>, <<1, 1000>>, 2000000000, 1>> :> -22931
  @@ <<<<1, 1>>, <<997, 1000>>, 2000000000, 1>> :> 4
  @@ <<<<1, 1>>, <<1, 1000>>, 2000000000, 1>> :> 9965
  @@ <<<<1, 4>>, <<997, 1000>>, 2000000000, 1>> :> -1995
  @@ <<<<1, 4>>, <<1, 1000>>, 2000000000, 1>> :> 7965
  @@ <<<<1, 1>>, <<1, 4>>, 1000, -1>> :> 2001

(***************************************************************************)
(* Motifs.  pwm and pwm_rc are int[MAX_MOTIF_SIZE] in C, five cells per    *)
(* position; here they are sequences of five-cell rows holding the         *)
(* positions up to the last one written.  Every cell the sequence does not *)
(* reach still has the value init_motif gave it.  A row beyond             *)
(* MaxPositions is a write past the end of the C array.                    *)
(***************************************************************************)
\* init_motif leaving the fifth cell of a row at 0: C1 does not hold of it
InitRowNoPenalty == <<0, 0, 0, 0, 0>>

InitRow == <<0, 0, 0, 0, AMBIGUITY_SCORE>>

\* "motif": the default name init_motif writes into the zeroed buffer
DefaultName == <<109, 111, 116, 105, 102>>

\* cdf is left uninitialised by malloc; cdf.alloc tells whether the pointer
\* refers to a live buffer.
NoCdf == [alloc |-> FALSE, pts |-> <<>>, filled |-> 0, den |-> 1, summed |-> FALSE]

\* init_motif
InitMotif ==
  [size |-> 0, threshold |-> 0, min |-> 0, max |-> 0, max_score |-> 0,
   min_score |-> 0, cdf_size |-> 0, file_line_num |-> 0,
   name |-> DefaultName, pwm |-> <<>>, pwm_rc |-> <<>>, cdf |-> NoCdf]

RowAt(rows, pos) == IF pos < Len(rows) THEN rows[pos + 1] ELSE InitRow

\* the rows after a write of score into cell (pos, idx)
WriteCell(rows, idx, pos, score) ==
  IF pos < Len(rows) THEN [rows EXCEPT ![pos + 1][idx + 1] = score]
  ELSE (rows \o [p \in 1..(pos - Len(rows)) |-> InitRow])
       \o <<[InitRow EXCEPT ![idx + 1] = score]>>

\* set_score / get_score / get_score_i
SetScore(motif, let, pos, score) ==
  [motif EXCEPT !.pwm = WriteCell(motif.pwm, Char2Index(let), pos, score)]

GetScore(motif, let, pos) == RowAt(motif.pwm, pos)[Char2Index(let) + 1]

GetScoreI(motif, i, pos) == RowAt(motif.pwm, pos)[i + 1]

\* set_score_rc / get_score_rc
SetScoreRc(motif, let, pos, score) ==
  [motif EXCEPT !.pwm_rc = WriteCell(motif.pwm_rc, Char2Index(let), pos, score)]

GetScoreRc(motif, let, pos) == RowAt(motif.pwm_rc, pos)[Char2Index(let) + 1]

\* a cell at a position >= MAX_MOTIF_SIZE / 5 has been written
PwmOverflow(motif) ==
  Len(motif.pwm) > MaxPositions \/ Len(motif.pwm_rc) > MaxPositions

\* The bytes of a name buffer after src was copied to its start without a
\* terminating NUL: what is left of the previous content follows.
OverwriteName(old, src) ==
  IF Len(src) >= Len(old) THEN src
  ELSE src \o SubSeq(old, Len(src) + 1, Len(old))

(***************************************************************************)
(* PWM construction.                                                       *)
(***************************************************************************)
\* calc_score: (int) (log2(x / bkg_i) * 1000.0) with
\* x = (prob_i * nsites + pseudocount / 4) / (nsites + pseudocount)
\* x is a positive number, so that log2(x / bkg_i) is one too.  It is
\* not when nsites + pseudocount is 0 or when x is 0 or negative, which a
\* negative -p or -n allows.
FiniteLog(prob_i, nsites, pseudocount) ==
  \/ nsites > 0 /\ pseudocount > 0
  \/ /\ nsites + pseudocount # 0
     /\ \E num \in {4 * prob_i[1] * nsites + pseudocount * prob_i[2]} :
          IF nsites + pseudocount > 0 THEN num > 0 ELSE num < 0

\* what the conversion to int of line 665 gives for a NaN or an infinity,
\* which C leaves undefined: INT_MIN on x86-64; on AArch64 0 for a NaN
NonFiniteInts == {INT_MIN, 0}

CalcScore(prob_i, bkg_i, nsites, pseudocount, nonfinite) ==
  IF FiniteLog(prob_i, nsites, pseudocount)
    THEN Log2Milli[<<prob_i, bkg_i, nsites, pseudocount>>]
    ELSE nonfinite

\* normalize_probs without its division by the sum: C15 does not hold of it
NormalizeProbsNoDivision(probs) ==
  [ok |-> ~RLess(<<1, 10>>, RAbs(RSub(RSum4(probs), ROne))), probs |-> probs]

\* normalize_probs: fails when the sum is off by more than 0.1, divides by
\* the sum when it is off by more than 0.02.
NormalizeProbs(probs) ==
  LET sum == RSum4(probs)
      off == RAbs(RSub(sum, ROne))
  IN  IF RLess(<<1, 10>>, off) THEN [ok |-> FALSE, probs |-> probs]
      ELSE IF RLess(<<2, 100>>, off)
        THEN [ok |-> TRUE, probs |-> [i \in 1..4 |-> RDiv(probs[i], sum)]]
        ELSE [ok |-> TRUE, probs |-> probs]

\* the rows after set_score has written the four scores sc into the cells
\* A, C, G and T of position pos
WriteCells(rows, pos, sc) ==
  IF pos < Len(rows)
    THEN [rows EXCEPT ![pos + 1] = <<sc[1], sc[2], sc[3], sc[4], @[5]>>]
    ELSE (rows \o [p \in 1..(pos - Len(rows)) |-> InitRow])
         \o <<<<sc[1], sc[2], sc[3], sc[4], InitRow[5]>>>>

\* set_score for 'A', 'C', 'G' and 'T' at one position
SetScores(motif, pos, sc) ==
  [motif EXCEPT !.pwm = WriteCells(motif.pwm, pos, sc)]

\* calc_score for the four letters of one position
CalcScores(probs, a) ==
  Table([i \in 1..4 |-> CalcScore(probs[i], a.bkg[i], a.nsites, a.pseudocount, a.nonfinite)])

\* add_motif_column past normalize_probs, whose result is n
ScoreColumn(motif, n, pos, a) ==
  IF n.ok THEN [ok |-> TRUE, motif |-> SetScores(motif, pos, CalcScores(n.probs, a))]
  ELSE [ok |-> FALSE, motif |-> motif]

\* add_motif_column: probs are the four values get_line_probs parsed
AddMotifColumn(motif, probs, pos, a) ==
  ScoreColumn(motif, NormalizeProbs(probs), pos, a)

(***************************************************************************)
(* Motif files.  A file is given by what the line parsers extract from it: *)
(*   fmt     "MEME", "HOMER" or "JASPAR" (what detect_motif_fmt finds)     *)
(*   bkg     the four values of a MEME background line, <<>> without one   *)
(*   motifs  per motif: name, the line number of its header and its rows   *)
(* A MEME or HOMER row is four probabilities; a JASPAR row is a base       *)
(* letter and its counts.                                                  *)
(***************************************************************************)
\* The name parsers copy a name of any length into the MAX_NAME_SIZE bytes
\* of motif_t.name: parse_meme_name and parse_homer_name write the bytes of
\* the name, parse_jaspar_name and add_consensus_motif write them and a
\* NUL.  A write at index MAX_NAME_SIZE or above lands in the pwm array
\* behind the buffer.
NameOverflow(fmt, name) ==
  IF fmt \in {"JASPAR", "CONSENSUS"} THEN Len(name) >= MAX_NAME_SIZE
  ELSE Len(name) > MAX_NAME_SIZE

\* add_motif followed by the name parser: parse_meme_name and
\* parse_homer_name copy the name without a NUL, parse_jaspar_name adds it.
NewMotif(def, terminated) ==
  [InitMotif EXCEPT !.file_line_num = def.line,
                    !.name = IF terminated THEN def.name
                             ELSE OverwriteName(DefaultName, def.name)]

(***************************************************************************)
(* A C loop "for (i = lo; i < hi; i++)" is written as an operator over     *)
(* lo..hi-1 that runs the first half of the range, then the second half on *)
(* what the first half left: the order of the C loop.  A loop that can     *)
(* fail stops at the first failure.                                        *)
(***************************************************************************)
\* the motif after a row: c is what add_motif_column returned
RowAdded(s, c, pos_i) ==
  IF ~c.ok THEN [ok |-> FALSE, motif |-> s.motif]
  ELSE [ok |-> TRUE, motif |-> [c.motif EXCEPT !.size = pos_i + 1]]

\* read_meme, lines 977-990: one row after "letter-probability matrix"
MemeRow(s, rows, pos_i, a) ==
  IF ~s.ok THEN s
  ELSE IF pos_i >= MaxPositions THEN [ok |-> FALSE, motif |-> s.motif]
  ELSE RowAdded(s, AddMotifColumn(s.motif, rows[pos_i + 1], pos_i, a), pos_i)

RECURSIVE MemeRowsIn(_, _, _, _, _)
MemeRowsIn(s, rows, lo, hi, a) ==
  IF lo >= hi THEN s
  ELSE IF hi = lo + 1 THEN MemeRow(s, rows, lo, a)
  ELSE LET half == MemeRowsIn(s, rows, lo, (lo + hi) \div 2, a)
       IN  IF ~half.ok THEN half
           ELSE MemeRowsIn(half, rows, (lo + hi) \div 2, hi, a)

MemeRows(motif, rows, a) ==
  MemeRowsIn([ok |-> TRUE, motif |-> motif], rows, 0, Len(rows), a)

\* read_homer, lines 1058-1067: one row after a ">" line; the size test
\* only prints
HomerRow(s, rows, pos_i, a) ==
  IF ~s.ok THEN s
  ELSE RowAdded(s, AddMotifColumn(s.motif, rows[pos_i + 1], pos_i, a), pos_i)

RECURSIVE HomerRowsIn(_, _, _, _, _)
HomerRowsIn(s, rows, lo, hi, a) ==
  IF lo >= hi THEN s
  ELSE IF hi = lo + 1 THEN HomerRow(s, rows, lo, a)
  ELSE LET half == HomerRowsIn(s, rows, lo, (lo + hi) \div 2, a)
       IN  IF ~half.ok THEN half
           ELSE HomerRowsIn(half, rows, (lo + hi) \div 2, hi, a)

HomerRows(motif, rows, a) ==
  HomerRowsIn([ok |-> TRUE, motif |-> motif], rows, 0, Len(rows), a)

\* add_jaspar_row, lines 1228-1253: one count between the brackets.  The
\* count before a blank is tested against MAX_MOTIF_SIZE, the last one
\* against MAX_NAME_SIZE.
JasparCount(s, let, counts, pos_i) ==
  IF ~s.ok THEN s
  ELSE IF pos_i < Len(counts) - 1 /\ pos_i + 1 > MAX_MOTIF_SIZE
    THEN [ok |-> FALSE, motif |-> s.motif]
  ELSE IF pos_i = Len(counts) - 1 /\ pos_i > MAX_NAME_SIZE
    THEN [ok |-> FALSE, motif |-> s.motif]
  ELSE [ok |-> TRUE, motif |-> SetScore(s.motif, let, pos_i, counts[pos_i + 1])]

RECURSIVE JasparCountsIn(_, _, _, _, _)
JasparCountsIn(s, let, counts, lo, hi) ==
  IF lo >= hi THEN s
  ELSE IF hi = lo + 1 THEN JasparCount(s, let, counts, lo)
  ELSE LET half == JasparCountsIn(s, let, counts, lo, (lo + hi) \div 2)
       IN  IF ~half.ok THEN half
           ELSE JasparCountsIn(half, let, counts, (lo + hi) \div 2, hi)

JasparCounts(motif, let, counts) ==
  JasparCountsIn([ok |-> TRUE, motif |-> motif], let, counts, 0, Len(counts))

\* add_jaspar_row, lines 1254-1266: c is the motif with the counts of the
\* row, pos_i their number
JasparRowAdded(c, pos_i) ==
  IF ~c.ok THEN c
  ELSE IF pos_i = 0 THEN [ok |-> FALSE, motif |-> c.motif]
  ELSE IF c.motif.size # 0 THEN [ok |-> c.motif.size = pos_i, motif |-> c.motif]
  ELSE [ok |-> TRUE, motif |-> [c.motif EXCEPT !.size = pos_i]]

\* add_jaspar_row
AddJasparRow(motif, row) ==
  IF Char2Index(row.let) = 4 THEN [ok |-> FALSE, motif |-> motif]
  ELSE JasparRowAdded(JasparCounts(motif, row.let, row.counts), Len(row.counts))

\* read_jaspar, lines 1322-1335: the rows of one motif
JasparRow(s, rows, row_i) ==
  IF ~s.ok THEN s ELSE AddJasparRow(s.motif, rows[row_i + 1])

RECURSIVE JasparRowsIn(_, _, _, _)
JasparRowsIn(s, rows, lo, hi) ==
  IF lo >= hi THEN s
  ELSE IF hi = lo + 1 THEN JasparRow(s, rows, lo)
  ELSE LET half == JasparRowsIn(s, rows, lo, (lo + hi) \div 2)
       IN  IF ~half.ok THEN half
           ELSE JasparRowsIn(half, rows, (lo + hi) \div 2, hi)

JasparRows(motif, rows) ==
  JasparRowsIn([ok |-> TRUE, motif |-> motif], rows, 0, Len(rows))

ColumnSum(motif, j) ==
  GetScoreI(motif, 0, j) + GetScoreI(motif, 1, j)
    + GetScoreI(motif, 2, j) + GetScoreI(motif, 3, j)

\* pcm_to_pwm, lines 1288-1293: the four counts of column j become scores;
\* the fifth cell of the row is not written
PcmColumn(motif, j, nsites, a) ==
  CalcScores([i \in 1..4 |-> Rat(GetScoreI(motif, i - 1, j), nsites)], a)
    \o <<GetScoreI(motif, 4, j)>>

PcmColumns(motif, nsites, a) ==
  [motif EXCEPT !.pwm = Table([p \in 1..motif.size |->
                                 PcmColumn(motif, p - 1, nsites, a)])]

\* pcm_to_pwm: the column sums may differ from the first by at most 1
PcmToPwm(motif, a) ==
  IF \E j \in 0..(motif.size - 1) :
       Abs(ColumnSum(motif, j) - ColumnSum(motif, 0)) > 1
    THEN [ok |-> FALSE, motif |-> motif]
    ELSE [ok |-> TRUE, motif |-> PcmColumns(motif, ColumnSum(motif, 0), a)]
\* The loop over the motifs of a file.  Each reader returns whether it ran
\* to its end (ok) and the motifs array as it stands: after a badexit the
\* motif being read is in the array, as far as it was filled.
MotifRead(s, r) == [ok |-> r.ok, motifs |-> Append(s.motifs, r.motif)]

\* read_meme: one motif, from its "MOTIF" line to its last row
MemeMotif(s, def, a) ==
  IF ~s.ok THEN s
  ELSE MotifRead(s, MemeRows(NewMotif(def, FALSE), def.rows, a))

RECURSIVE MemeMotifsIn(_, _, _, _, _)
MemeMotifsIn(s, defs, lo, hi, a) ==
  IF lo >= hi THEN s
  ELSE IF hi = lo + 1 THEN MemeMotif(s, defs[lo + 1], a)
  ELSE LET half == MemeMotifsIn(s, defs, lo, (lo + hi) \div 2, a)
       IN  IF ~half.ok THEN half
           ELSE MemeMotifsIn(half, defs, (lo + hi) \div 2, hi, a)

MemeMotifs(defs, a) ==
  MemeMotifsIn([ok |-> TRUE, motifs |-> <<>>], defs, 0, Len(defs), a)

\* what a reader hands to load_motifs: r is the result of its loop
Loaded(r, a) == [ok |-> r.ok, motifs |-> r.motifs, args |-> a]

\* read_meme, line 1001: a file without a motif is an error
MemeLoaded(r, a) ==
  [ok |-> r.ok /\ Len(r.motifs) > 0, motifs |-> r.motifs, args |-> a]

\* read_meme past the background line: b is what get_meme_bkg left
MemeAfterBkg(file, a, b) ==
  IF ~b.ok THEN [ok |-> FALSE, motifs |-> <<>>, args |-> a]
  ELSE MemeLoaded(MemeMotifs(file.motifs, [a EXCEPT !.bkg = b.bkg]),
                  [a EXCEPT !.bkg = b.bkg])

\* read_meme with a get_meme_bkg that loads the background of the file even
\* when -b was given: C11 does not hold of it
ReadMemeOverUserBkg(file, a) ==
  MemeAfterBkg(file, a,
               IF file.bkg = <<>> THEN [ok |-> TRUE, bkg |-> a.bkg]
               ELSE CheckAndLoadBkg(file.bkg))

\* The lines of a MEME file that define the alphabet, the strands or the
\* background once more or behind a MOTIF line: file.again, each with its
\* kind and with the number of MOTIF lines before it.  The file has its
\* ALPHABET and its strands line at its top, and its background lines, if
\* any, before its first MOTIF line.
MemeAgain(file) == IF "again" \in DOMAIN file THEN file.again ELSE <<>>

\* read_meme, lines 895-899: at a second "Background letter frequencies"
\* line the line buffer is freed and the loop goes on, so that the next
\* getline is handed the freed buffer
MemeLineReused(file) ==
  /\ file.fmt = "MEME"
  /\ MemeAgain(file) # <<>>
  /\ MemeAgain(file)[1].kind = "bkg"
  /\ file.bkg # <<>>

\* read_meme on a file without such a line: the background line precedes
\* the motifs; get_meme_bkg leaves args.bkg alone when -b was given
MemeRead(file, a) ==
  MemeAfterBkg(file, a,
               IF file.bkg = <<>> \/ a.use_user_bkg
                 THEN [ok |-> TRUE, bkg |-> a.bkg]
                 ELSE CheckAndLoadBkg(file.bkg))

\* read_meme.  At the first line of file.again the motifs before it have
\* been read; the line is fatal (lines 901-905, 914-926, 932-944) unless
\* it is a second background line.
ReadMeme(file, a) ==
  IF MemeAgain(file) = <<>> THEN MemeRead(file, a)
  ELSE [MemeRead([file EXCEPT
                    !.motifs = SubSeq(file.motifs, 1, MemeAgain(file)[1].after)], a)
          EXCEPT !.ok = FALSE]

\* read_homer: one motif, from its ">" line to its last row
HomerMotif(s, def, a) ==
  IF ~s.ok THEN s
  ELSE MotifRead(s, HomerRows(NewMotif(def, FALSE), def.rows, a))

RECURSIVE HomerMotifsIn(_, _, _, _, _)
HomerMotifsIn(s, defs, lo, hi, a) ==
  IF lo >= hi THEN s
  ELSE IF hi = lo + 1 THEN HomerMotif(s, defs[lo + 1], a)
  ELSE LET half == HomerMotifsIn(s, defs, lo, (lo + hi) \div 2, a)
       IN  IF ~half.ok THEN half
           ELSE HomerMotifsIn(half, defs, (lo + hi) \div 2, hi, a)

HomerMotifs(defs, a) ==
  HomerMotifsIn([ok |-> TRUE, motifs |-> <<>>], defs, 0, Len(defs), a)

\* read_homer
ReadHomer(file, a) == Loaded(HomerMotifs(file.motifs, a), a)

\* read_jaspar, lines 1305-1315 and 1337-1346: a motif must have four rows
JasparMotifRead(s, r, rows) ==
  [ok |-> r.ok /\ Len(rows) = 4, motifs |-> Append(s.motifs, r.motif)]

\* read_jaspar: one motif, from its ">" line to its last row
JasparMotif(s, def) ==
  IF ~s.ok THEN s
  ELSE JasparMotifRead(s, JasparRows(NewMotif(def, TRUE), def.rows), def.rows)

RECURSIVE JasparMotifsIn(_, _, _, _)
JasparMotifsIn(s, defs, lo, hi) ==
  IF lo >= hi THEN s
  ELSE IF hi = lo + 1 THEN JasparMotif(s, defs[lo + 1])
  ELSE LET half == JasparMotifsIn(s, defs, lo, (lo + hi) \div 2)
       IN  IF ~half.ok THEN half
           ELSE JasparMotifsIn(half, defs, (lo + hi) \div 2, hi)

JasparMotifs(defs) ==
  JasparMotifsIn([ok |-> TRUE, motifs |-> <<>>], defs, 0, Len(defs))

\* read_jaspar, lines 1344-1346: pcm_to_pwm for motif k, r is its result
Converted(s, k, r) ==
  IF ~r.ok THEN [ok |-> FALSE, motifs |-> s.motifs]
  ELSE [ok |-> TRUE, motifs |-> [s.motifs EXCEPT ![k + 1] = r.motif]]

JasparConvert(s, k, a) ==
  IF ~s.ok THEN s ELSE Converted(s, k, PcmToPwm(s.motifs[k + 1], a))

RECURSIVE JasparConvertIn(_, _, _, _)
JasparConvertIn(s, lo, hi, a) ==
  IF lo >= hi THEN s
  ELSE IF hi = lo + 1 THEN JasparConvert(s, lo, a)
  ELSE LET half == JasparConvertIn(s, lo, (lo + hi) \div 2, a)
       IN  IF ~half.ok THEN half
           ELSE JasparConvertIn(half, (lo + hi) \div 2, hi, a)

\* read_jaspar past the loop over the lines, whose result is r
JasparAfterRows(r, a) ==
  IF ~r.ok THEN r ELSE JasparConvertIn(r, 0, Len(r.motifs), a)

\* read_jaspar
ReadJaspar(file, a) == Loaded(JasparAfterRows(JasparMotifs(file.motifs), a), a)

\* read_jaspar, lines 1306-1316: a motif without its four rows is found at
\* the header of the next motif, and badexit is called with the getline
\* buffer still allocated (at the end of the file the buffer is freed first)
JasparLineLeaked(file) ==
  /\ file.fmt = "JASPAR"
  /\ \E k \in 1..(Len(file.motifs) - 1) :
       /\ JasparMotifs(SubSeq(file.motifs, 1, k - 1)).ok
       /\ JasparRows(NewMotif(file.motifs[k], TRUE), file.motifs[k].rows).ok
       /\ Len(file.motifs[k].rows) # 4

\* get_pwm_max and get_pwm_min: both start from 0
Max2(x, y) == IF x > y THEN x ELSE y
Min2(x, y) == IF x < y THEN x ELSE y

Max4(r) == Max2(Max2(r[1], r[2]), Max2(r[3], r[4]))

Min4(r) == Min2(Min2(r[1], r[2]), Min2(r[3], r[4]))

\* the largest (smallest) of 0 and the cells of the positions lo..hi-1
RECURSIVE PwmFold(_, _, _, _)
PwmFold(motif, lo, hi, isMax) ==
  IF lo >= hi THEN 0
  ELSE IF hi = lo + 1
    THEN IF isMax THEN Max2(0, Max4(RowAt(motif.pwm, lo)))
         ELSE Min2(0, Min4(RowAt(motif.pwm, lo)))
  ELSE LET a == PwmFold(motif, lo, (lo + hi) \div 2, isMax)
           b == PwmFold(motif, (lo + hi) \div 2, hi, isMax)
       IN  IF isMax THEN Max2(a, b) ELSE Min2(a, b)

GetPwmMax(motif) == PwmFold(motif, 0, motif.size, TRUE)

\* get_pwm_min starting from the first cell instead of 0: C25 does not
\* hold of it
GetPwmMinFromFirstCell(motif) ==
  IF motif.size = 0 THEN 0
  ELSE LET cells == {GetScoreI(motif, j, k) : j \in 0..3, k \in 0..(motif.size - 1)}
       IN  CHOOSE x \in cells : \A y \in cells : x <= y

GetPwmMin(motif) == PwmFold(motif, 0, motif.size, FALSE)

\* fill_pwm_rc mirroring the positions without complementing the bases: C6
\* does not hold of it
FillPwmRcAtMirrorOnly(motif, pos) ==
  <<GetScore(motif, 65, pos), GetScore(motif, 67, pos),
    GetScore(motif, 71, pos), GetScore(motif, 84, pos),
    RowAt(motif.pwm_rc, motif.size - 1 - pos)[5]>>

\* fill_pwm_rc, one turn of its loop: row size-1-pos of pwm_rc takes the
\* complemented cells of row pos of pwm; its fifth cell is not written
FillPwmRcAt(motif, pos) ==
  <<GetScore(motif, 84, pos), GetScore(motif, 71, pos),
    GetScore(motif, 67, pos), GetScore(motif, 65, pos),
    RowAt(motif.pwm_rc, motif.size - 1 - pos)[5]>>

\* fill_pwm_rc
FillPwmRc(motif) ==
  [motif EXCEPT !.pwm_rc = Table([q \in 1..motif.size |->
                                    FillPwmRcAt(motif, motif.size - q)])]

\* complete_motifs
CompleteMotifs(ms) ==
  Table([i \in 1..Len(ms) |->
           FillPwmRc([ms[i] EXCEPT !.min = GetPwmMin(ms[i]),
                                   !.max = GetPwmMax(ms[i])])])

\* load_motifs, lines 1353-1366: the reader for the detected format
ReadMotifs(file, a) ==
  IF file.fmt = "MEME" THEN ReadMeme(file, a)
  ELSE IF file.fmt = "HOMER" THEN ReadHomer(file, a)
  ELSE ReadJaspar(file, a)

\* load_motifs, lines 1368-1374: some motif must have a row
SomeMotif(ms, a) ==
  [ok |-> \E i \in 1..Len(ms) : ms[i].size # 0, motifs |-> ms, args |-> a]

\* load_motifs past the reader, whose result is r
MotifsAfterRead(r) ==
  IF ~r.ok THEN r ELSE SomeMotif(CompleteMotifs(r.motifs), r.args)

\* load_motifs
LoadMotifsFile(file, a) == MotifsAfterRead(ReadMotifs(file, a))

\* add_consensus_motif, one turn of its loop: an unknown letter is fatal
ConsensusColumn(s, consensus, pos, a) ==
  IF ~s.ok THEN s
  ELSE IF Consensus2Index(consensus[pos + 1]) < 0
    THEN [ok |-> FALSE, motif |-> s.motif]
  ELSE [ok |-> TRUE,
        motif |-> SetScores(s.motif, pos,
                    CalcScores([i \in 1..4 |->
                      Rat(consensus2probs[Consensus2Index(consensus[pos + 1]) * 4 + i],
                          1000)], a))]

RECURSIVE ConsensusColumnsIn(_, _, _, _, _)
ConsensusColumnsIn(s, consensus, lo, hi, a) ==
  IF lo >= hi THEN s
  ELSE IF hi = lo + 1 THEN ConsensusColumn(s, consensus, lo, a)
  ELSE LET half == ConsensusColumnsIn(s, consensus, lo, (lo + hi) \div 2, a)
       IN  IF ~half.ok THEN half
           ELSE ConsensusColumnsIn(half, consensus, (lo + hi) \div 2, hi, a)

\* add_consensus_motif past its loop, whose result is r
ConsensusAfterColumns(r, a) ==
  IF ~r.ok THEN [ok |-> FALSE, motifs |-> <<r.motif>>, args |-> a]
  ELSE [ok |-> TRUE, motifs |-> CompleteMotifs(<<r.motif>>), args |-> a]

\* add_consensus_motif: the name is the consensus string; a string wider
\* than MAX_MOTIF_SIZE / 5 only prints a message.
AddConsensusMotif(consensus, a) ==
  ConsensusAfterColumns(
    ConsensusColumnsIn(
      [ok |-> TRUE,
       motif |-> [InitMotif EXCEPT !.name = consensus, !.size = Len(consensus)]],
      consensus, 0, Len(consensus), a),
    a)

(***************************************************************************)
(* The CDF.  In C, motif->cdf is an array of cdf_size doubles.  Most of    *)
(* its cells are 0 while it holds the PDF, so the model stores the array   *)
(* as                                                                      *)
(*   pts     the non-zero cells below index `filled`: index -> numerator   *)
(*   filled  the cells from this index on still hold the 1.0 of line 429   *)
(*   den     the denominator of all numerators                             *)
(*   summed  whether the suffix sum of lines 458-460 has been applied      *)
(* and reads it with CellAt (before the suffix sum) and CdfAt (after).     *)
(***************************************************************************)
RECURSIVE SumOver(_, _)
SumOver(f, S) ==
  IF S = {} THEN 0
  ELSE LET k == CHOOSE x \in S : TRUE IN f[k] + SumOver(f, S \ {k})

RECURSIVE GcdOver(_, _, _)
GcdOver(f, S, g) ==
  IF S = {} THEN g
  ELSE LET k == CHOOSE x \in S : TRUE IN GcdOver(f, S \ {k}, GCD(g, f[k]))

LCM(a, b) == (a \div GCD(a, b)) * b

\* the four background values as integer weights over one denominator
BkgDen(bkg) == LCM(LCM(bkg[1][2], bkg[2][2]), LCM(bkg[3][2], bkg[4][2]))

BkgWeight(bkg, j) == bkg[j][1] * (BkgDen(bkg) \div bkg[j][2])

\* cdf[k] while the array holds the PDF, as a numerator over c.den
CellAt(c, k) ==
  IF k >= c.filled THEN c.den
  ELSE IF k \in DOMAIN c.pts THEN c.pts[k] ELSE 0

\* divide all numerators and the denominator by their common divisor: the
\* values are unchanged
Lowest(c) ==
  LET g == GcdOver(c.pts, DOMAIN c.pts, c.den)
  IN  [c EXCEPT !.pts = Table([k \in DOMAIN c.pts |-> c.pts[k] \div g]),
                !.den = c.den \div g]

\* fill_cdf, one turn of the loop over the positions (lines 430-446):
\* every non-zero tmp_pdf[k], k <= max_step, adds tmp_pdf[k] * bkg[j] to
\* cdf[k + s] for the four shifted scores s of position i.
CdfStep(motif, c, i, bkg) ==
  LET max_score == motif.max - motif.min
      max_step  == i * max_score
      s(j)      == GetScoreI(motif, j - 1, i) - motif.min
      src       == {k \in 0..max_step : CellAt(c, k) # 0}
      hit       == {k + s(j) : k \in src, j \in 1..4}
      add(t)    == SumOver([j \in 1..4 |->
                              IF (t - s(j)) \in src
                                THEN CellAt(c, t - s(j)) * BkgWeight(bkg, j)
                                ELSE 0], 1..4)
  IN  Lowest([c EXCEPT !.pts = Table([t \in hit |-> add(t)]),
                       !.filled = Max2(c.filled, max_step + max_score + 1),
                       !.den = c.den * BkgDen(bkg)])

RECURSIVE CdfSteps(_, _, _, _, _)
CdfSteps(motif, c, lo, hi, bkg) ==
  IF lo >= hi THEN c
  ELSE IF hi = lo + 1 THEN CdfStep(motif, c, lo, bkg)
  ELSE LET half == CdfSteps(motif, c, lo, (lo + hi) \div 2, bkg)
       IN  IF half.alloc THEN CdfSteps(motif, half, (lo + hi) \div 2, hi, bkg)
           ELSE half

\* fill_cdf dividing the cells by twice their sum: C22 does not hold of it
CdfNormalizeTwice(c, pdf_size) ==
  [c EXCEPT !.den = 2 * (SumOver(c.pts, DOMAIN c.pts) + (pdf_size - c.filled) * c.den)]

\* fill_cdf, lines 448-457: the cells are divided by their sum when it is
\* off 1 by more than 0.0001
CdfNormalize(c, pdf_size) ==
  LET pdf_sum == SumOver(c.pts, DOMAIN c.pts) + (pdf_size - c.filled) * c.den
  IN  IF RLess(<<1, 10000>>, RAbs(RSub(Rat(pdf_sum, c.den), ROne)))
        THEN [c EXCEPT !.den = pdf_sum]
        ELSE c

\* fill_cdf with a range one cell short: C9 does not hold of it
FillCdfOneShort(motif, bkg) ==
  LET max_score == motif.max - motif.min
      pdf_size  == motif.size * max_score
      m1 == [motif EXCEPT !.cdf_size = pdf_size]
      c0 == [alloc |-> TRUE, pts |-> <<>>, filled |-> 0, den |-> 1,
             summed |-> FALSE]
      c1 == CdfNormalize(CdfSteps(m1, c0, 0, m1.size, bkg), pdf_size)
  IN  IF pdf_size > MAX_CDF_SIZE THEN [ok |-> FALSE, motif |-> m1]
      ELSE [ok |-> TRUE, motif |-> [m1 EXCEPT !.cdf = [c1 EXCEPT !.summed = TRUE]]]

\* fill_cdf.  cdf_size is set before the size test; past the test the two
\* buffers are allocated (the model has no allocation failure).
FillCdf(motif, bkg) ==
  LET max_score == motif.max - motif.min
      pdf_size  == motif.size * max_score + 1
      m1 == [motif EXCEPT !.cdf_size = pdf_size]
      c0 == [alloc |-> TRUE, pts |-> <<>>, filled |-> 0, den |-> 1,
             summed |-> FALSE]
      c1 == CdfNormalize(CdfSteps(m1, c0, 0, m1.size, bkg), pdf_size)
  IN  IF pdf_size > MAX_CDF_SIZE THEN [ok |-> FALSE, motif |-> m1]
      ELSE [ok |-> TRUE, motif |-> [m1 EXCEPT !.cdf = [c1 EXCEPT !.summed = TRUE]]]

\* the suffix sum of lines 458-460 leaving out the cell itself, cdf[t] the
\* sum of the PDF cells above t: C21 does not hold of it
CdfAtAbove(motif, t) ==
  LET c == motif.cdf
      from == {k \in DOMAIN c.pts : k > t}
      ones == motif.cdf_size - Max2(t + 1, c.filled)
  IN  Rat(SumOver(c.pts, from) + (IF ones > 0 THEN ones * c.den ELSE 0), c.den)

\* cdf[t] after the suffix sum: the sum of the PDF cells from t on
CdfAt(motif, t) ==
  LET c == motif.cdf
      from == {k \in DOMAIN c.pts : k >= t}
      ones == motif.cdf_size - Max2(t, c.filled)
  IN  Rat(SumOver(c.pts, from) + (IF ones > 0 THEN ones * c.den ELSE 0), c.den)

\* score2pval
\* score2pval reading the cell at the score itself, without the shift by
\* min * size: C28 does not hold of it
ScoreIndexUnshifted(motif, score) == score

\* score2pval: the index of the cell it reads
ScoreIndex(motif, score) == score - motif.min * motif.size

\* index t lies within the cdf array
InCdf(motif, t) == t >= 0 /\ t < motif.cdf_size

Score2Pval(motif, score) == CdfAt(motif, ScoreIndex(motif, score))

\* fill_cdf, lines 438-445: the indices k + s of the cells written in the
\* turn of position i, c being the array before the turn
CdfWrites(motif, c, i) ==
  {k + (GetScoreI(motif, j - 1, i) - motif.min) :
     k \in {k \in 0..(i * (motif.max - motif.min)) : CellAt(c, k) # 0},
     j \in 1..4}

\* fill_cdf from position i on writes within the array
RECURSIVE CdfWritesIn(_, _, _, _)
CdfWritesIn(motif, c, i, bkg) ==
  IF i >= motif.size THEN TRUE
  ELSE /\ \A t \in CdfWrites(motif, c, i) : InCdf(motif, t)
       /\ CdfWritesIn(motif, CdfStep(motif, c, i, bkg), i + 1, bkg)

\* the array as line 429 leaves it, every cell 1.0
OnesCdf == [alloc |-> TRUE, pts |-> <<>>, filled |-> 0, den |-> 1, summed |-> FALSE]

\* the int division by 2 of C, which rounds towards 0
HalfOf(x) == IF x >= 0 THEN x \div 2 ELSE -((-x) \div 2)

\* print_motif, lines 1147-1157: the scores whose p-value it prints
PrintMotifScores(motif) ==
  {HalfOf(motif.min_score), 0, HalfOf(motif.max_score), motif.max_score}

\* the loop of lines 470-475 of set_threshold stopping at the first index
\* whose CDF value is at or below pvalue: C23 does not hold of it
ThresholdIndexAtOrBelow(motif, pvalue) ==
  LET c == motif.cdf
      steps == {0} \cup {k + 1 : k \in DOMAIN c.pts} \cup (c.filled..(motif.cdf_size - 1))
      below == {i \in steps : i < motif.cdf_size /\ RLeq(CdfAt(motif, i), pvalue)}
  IN  IF below = {} THEN motif.cdf_size
      ELSE CHOOSE i \in below : \A k \in below : i <= k

\* set_threshold, the loop of lines 470-475: the first index whose CDF
\* value is below pvalue, or cdf_size when there is none.  The array is
\* constant between two stored cells, so that index is 0, or follows a
\* stored cell, or lies in the part that still holds 1.0.
ThresholdIndex(motif, pvalue) ==
  LET c == motif.cdf
      steps == {0} \cup {k + 1 : k \in DOMAIN c.pts} \cup (c.filled..(motif.cdf_size - 1))
      below == {i \in steps : i < motif.cdf_size /\ RLess(CdfAt(motif, i), pvalue)}
  IN  IF below = {} THEN motif.cdf_size
      ELSE CHOOSE i \in below : \A k \in below : i <= k

\* the loop of lines 479-489 of set_threshold with max_pos and min_pos left
\* at the cell of column 0: C24 does not hold of it
RECURSIVE SumExtremesOfFirstColumn(_, _, _, _)
SumExtremesOfFirstColumn(motif, lo, hi, isMax) ==
  IF lo >= hi THEN 0
  ELSE GetScoreI(motif, 0, lo) + SumExtremesOfFirstColumn(motif, lo + 1, hi, isMax)

\* set_threshold, the loop of lines 479-489: the sum over the positions
\* lo..hi-1 of the largest (smallest) of the four cells
RECURSIVE SumExtremes(_, _, _, _)
SumExtremes(motif, lo, hi, isMax) ==
  IF lo >= hi THEN 0
  ELSE IF hi = lo + 1
    THEN IF isMax THEN Max4(RowAt(motif.pwm, lo)) ELSE Min4(RowAt(motif.pwm, lo))
  ELSE SumExtremes(motif, lo, (lo + hi) \div 2, isMax)
       + SumExtremes(motif, (lo + hi) \div 2, hi, isMax)

\* set_threshold without its lines 499-507, the threshold left as the loop
\* over the CDF found it: C14 does not hold of it
SetThresholdAlwaysReachable(motif, pvalue) ==
  [motif EXCEPT
     !.threshold = ThresholdIndex(motif, pvalue)
                     - (motif.threshold - motif.min) * motif.size,
     !.max_score = motif.max_score + SumExtremes(motif, 0, motif.size, TRUE),
     !.min_score = motif.min_score + SumExtremes(motif, 0, motif.size, FALSE)]

\* set_threshold
SetThreshold(motif, pvalue) ==
  LET threshold_i == ThresholdIndex(motif, pvalue)
      m1 == [motif EXCEPT
               !.threshold = threshold_i - (motif.threshold - motif.min) * motif.size,
               !.max_score = motif.max_score + SumExtremes(motif, 0, motif.size, TRUE),
               !.min_score = motif.min_score + SumExtremes(motif, 0, motif.size, FALSE)]
      min_pvalue == Score2Pval(m1, m1.max_score)
  IN  IF RLess(RMul(<<10001, 10000>>, pvalue), min_pvalue)
        THEN [m1 EXCEPT !.threshold = INT_MAX]
        ELSE m1

(***************************************************************************)
(* Sequences.  A FASTA file is its lines, each without its line feed; the  *)
(* last line of the file may lack the line feed (nl = FALSE).              *)
(***************************************************************************)
\* count_nonempty_chars
CountNonemptyChars(line) ==
  Cardinality({i \in 1..Len(line) : line[i] \notin {32, 9, 13, 10}})

\* the line without a closing carriage return (lines 1413-1419)
Chomp(line) ==
  IF Len(line) > 0 /\ line[Len(line)] = 13 THEN SubSeq(line, 1, Len(line) - 1)
  ELSE line

NoSpaces(line) == SelectSeq(line, LAMBDA b : b # 32)

\* load_seqs, lines 1420-1487, for line k: a ">" line opens a sequence and
\* its name is the string after ">", at most SEQ_NAME_MAX_CHAR bytes of it;
\* any other line gives its first line_len bytes, the spaces left out, to
\* the open sequence, whose array is allocated by its first line (alloc).
\* str is the line as a string, bytes are its first line_len bytes.
AddSeqLine(done, str, bytes, k) ==
  IF str[1] = 62
    THEN Append(done, [name |-> SubSeq(str, 2, Min2(Len(str), SEQ_NAME_MAX_CHAR + 1)),
                       seq |-> <<>>, line_num |-> k, alloc |-> FALSE])
  ELSE IF Len(done) > 0
    THEN [done EXCEPT ![Len(done)].seq = done[Len(done)].seq \o NoSpaces(bytes),
                      ![Len(done)].alloc = TRUE]
  ELSE done

\* load_seqs, the loop over the lines k..hi, all ended by a line feed
RECURSIVE ReadSeqLines(_, _, _, _)
ReadSeqLines(lines, k, hi, done) ==
  IF k > hi THEN done
  ELSE IF CountNonemptyChars(lines[k]) = 0 \/ Len(Chomp(lines[k])) = 0
    THEN ReadSeqLines(lines, k + 1, hi, done)
  ELSE ReadSeqLines(lines, k + 1, hi,
                    AddSeqLine(done, Chomp(lines[k]), Chomp(lines[k]), k))

\* line_len after the lines 1..k: the length of the last line that was not
\* skipped at line 1411, 0 before any
RECURSIVE LineLenAfter(_, _)
LineLenAfter(lines, k) ==
  IF k = 0 THEN 0
  ELSE IF CountNonemptyChars(lines[k]) = 0 THEN LineLenAfter(lines, k - 1)
  ELSE Len(Chomp(lines[k]))

\* the byte at index p of the getline buffer after the lines 1..k: getline
\* writes a line, its line feed and a NUL at the start of the buffer and
\* leaves the rest as it was; lines 1413 and 1416 put a NUL on the carriage
\* return or on the line feed
RECURSIVE BufAt(_, _, _)
BufAt(lines, k, p) ==
  IF k = 0 THEN 0
  ELSE LET n  == Len(lines[k])
           nb == CountNonemptyChars(lines[k]) # 0
           cr == n > 0 /\ lines[k][n] = 13
       IN  IF p > n + 1 THEN BufAt(lines, k - 1, p)
           ELSE IF p = n + 1 THEN 0
           ELSE IF p = n THEN (IF nb /\ ~cr THEN 0 ELSE 10)
           ELSE IF nb /\ cr /\ p = n - 1 THEN 0
           ELSE lines[k][p + 1]

\* load_seqs on a last line k without a line feed: neither test of lines
\* 1413-1419 holds unless the byte before the last is a carriage return, so
\* line_len keeps the value the line before gave it, and the line_len bytes
\* taken from the buffer are the start of the line if it is longer, and the
\* line, its NUL and what the buffer held behind it if it is shorter
OpenLine(done, lines, k) ==
  LET raw == lines[k]
      n   == Len(raw)
      cr  == n > 1 /\ raw[n - 1] = 13
      str == IF cr THEN SubSeq(raw, 1, n - 2) ELSE raw
      line_len == IF cr THEN n - 2 ELSE LineLenAfter(lines, k - 1)
      bytes == [i \in 1..line_len |->
                  IF i <= Len(str) THEN str[i]
                  ELSE IF i = Len(str) + 1 THEN 0
                  ELSE BufAt(lines, k - 1, i - 1)]
  IN  IF CountNonemptyChars(raw) = 0 \/ line_len = 0 THEN done
      ELSE IF Len(str) = 0 THEN
        (IF Len(done) > 0
           THEN [done EXCEPT ![Len(done)].seq = done[Len(done)].seq \o NoSpaces(bytes),
                             ![Len(done)].alloc = TRUE]
           ELSE done)
      ELSE AddSeqLine(done, str, bytes, k)

\* standard_base_count, over one sequence
StandardBases(seq) ==
  Cardinality({i \in 1..Len(seq) :
                 seq[i] \in {65, 97, 67, 99, 71, 103, 85, 117, 84, 116}})

RECURSIVE TotalBases(_, _)
TotalBases(ss, k) ==
  IF k > Len(ss) THEN 0 ELSE Len(ss[k].seq) + TotalBases(ss, k + 1)

RECURSIVE TotalStandard(_, _)
TotalStandard(ss, k) ==
  IF k > Len(ss) THEN 0 ELSE StandardBases(ss[k].seq) + TotalStandard(ss, k + 1)

\* load_seqs: fails without a header, without a base and without a
\* standard base.  A last line of one byte without a line feed makes line
\* 1413 read line[-1] (oob).
LoadSeqs(lines, nl) ==
  LET n  == Len(lines)
      ss == IF nl \/ n = 0 THEN ReadSeqLines(lines, 1, n, <<>>)
            ELSE OpenLine(ReadSeqLines(lines, 1, n - 1, <<>>), lines, n)
      seq_len_total == TotalBases(ss, 1)
      unknowns == seq_len_total - TotalStandard(ss, 1)
  IN  [ok |-> Len(ss) > 0 /\ seq_len_total # 0 /\ unknowns # seq_len_total,
       seqs |-> ss,
       oob |-> ~nl /\ n > 0 /\ Len(lines[n]) = 1 /\ CountNonemptyChars(lines[n]) # 0]

\* trim_seq_names: a name ends at its first blank
TrimName(name) ==
  IF \E i \in 1..Len(name) : name[i] = 32
    THEN SubSeq(name, 1, (CHOOSE i \in 1..Len(name) :
                            name[i] = 32 /\ \A k \in 1..(i - 1) : name[k] # 32) - 1)
    ELSE name

TrimSeqNames(ss) ==
  Table([i \in 1..Len(ss) |-> [ss[i] EXCEPT !.name = TrimName(ss[i].name)]])

\* find_motif_dupes and find_seq_dupes without -d: a name that occurs twice
\* is fatal
HasDupes(items) ==
  \E i, j \in 1..Len(items) : i < j /\ items[i].name = items[j].name

\* the decimal digits of n >= 0, as sprintf("%d") writes them
RECURSIVE Decimal(_)
Decimal(n) ==
  IF n < 10 THEN <<48 + n>> ELSE Append(Decimal(n \div 10), 48 + (n % 10))

\* int_to_char_array: "__N%d_L%d"
IntToCharArray(L, N) == <<95, 95, 78>> \o Decimal(N) \o <<95, 76>> \o Decimal(L)

\* dedup_char_array on a buffer of arr_max_len bytes holding the string arr:
\* the suffix and its NUL are written at the first NUL of the buffer if they
\* fit; a buffer without a NUL has arr_len = 0
DedupCharArray(arr, arr_max_len, L, N) ==
  LET arr_len   == IF Len(arr) >= arr_max_len THEN 0 ELSE Len(arr)
      dedup_len == Len(IntToCharArray(L, N)) + 1
  IN  IF arr_max_len - arr_len >= dedup_len
        THEN [ok |-> TRUE, name |-> SubSeq(arr, 1, arr_len) \o IntToCharArray(L, N)]
        ELSE [ok |-> FALSE, name |-> arr]

\* find_motif_dupes and find_seq_dupes: is_dup[i] is set for every name that
\* occurs more than once; without -d a duplicate is fatal, with -d every
\* marked name gets its suffix, and a suffix that does not fit is fatal
IsDup(names, i) == \E j \in 1..Len(names) : j # i /\ names[j] = names[i]

Deduped(names, lines, i, arr_max_len) ==
  IF IsDup(names, i) THEN DedupCharArray(names[i], arr_max_len, lines[i], i)
  ELSE [ok |-> TRUE, name |-> names[i]]

FindDupes(names, lines, dedup, arr_max_len) ==
  IF Len(names) <= 1 \/ \A i \in 1..Len(names) : ~IsDup(names, i)
    THEN [ok |-> TRUE, names |-> names]
  ELSE IF ~dedup THEN [ok |-> FALSE, names |-> names]
  ELSE [ok |-> \A i \in 1..Len(names) : Deduped(names, lines, i, arr_max_len).ok,
        names |-> Table([i \in 1..Len(names) |-> Deduped(names, lines, i, arr_max_len).name])]

\* find_motif_dupes on what load_motifs left
MotifDupes(r, dedup) ==
  IF ~r.ok THEN r
  ELSE LET d == FindDupes(Table([i \in 1..Len(r.motifs) |-> r.motifs[i].name]),
                          Table([i \in 1..Len(r.motifs) |-> r.motifs[i].file_line_num]),
                          dedup, MAX_NAME_SIZE)
       IN  [ok |-> d.ok,
            motifs |-> Table([i \in 1..Len(r.motifs) |->
                                [r.motifs[i] EXCEPT !.name = d.names[i]]]),
            args |-> r.args]

\* find_seq_dupes on the loaded sequences
SeqDupes(ss, dedup) ==
  LET d == FindDupes(Table([i \in 1..Len(ss) |-> ss[i].name]),
                     Table([i \in 1..Len(ss) |-> ss[i].line_num]), dedup,
                     SEQ_NAME_MAX_CHAR)
  IN  [ok |-> d.ok,
       seqs |-> Table([i \in 1..Len(ss) |-> [ss[i] EXCEPT !.name = d.names[i]]])]

(***************************************************************************)
(* Scanning.                                                               *)
(***************************************************************************)
\* the sum of the cells of seq[offset + i] at the positions i of lo..hi-1
RECURSIVE ScoreIn(_, _, _, _, _, _)
ScoreIn(motif, seq, offset, lo, hi, rc) ==
  IF lo >= hi THEN 0
  ELSE IF hi = lo + 1
    THEN IF rc THEN GetScoreRc(motif, seq[lo + offset + 1], lo)
         ELSE GetScore(motif, seq[lo + offset + 1], lo)
  ELSE ScoreIn(motif, seq, offset, lo, (lo + hi) \div 2, rc)
       + ScoreIn(motif, seq, offset, (lo + hi) \div 2, hi, rc)

\* score_subseq
ScoreSubseq(motif, seq, offset) == ScoreIn(motif, seq, offset, 0, motif.size, FALSE)

\* score_subseq_rc
ScoreSubseqRc(motif, seq, offset) == ScoreIn(motif, seq, offset, 0, motif.size, TRUE)

\* score_seq printing the window of a "-" line from its last byte to its
\* first: C5 does not hold of it
HitLineBackwards(motif, motif_i, s, seq_i, i, strand, score) ==
  [motif_i |-> motif_i, seq_i |-> seq_i, seqname |-> s.name,
   start |-> i + 1, end |-> i + motif.size, strand |-> strand,
   motif |-> motif.name, pvalue |-> Score2Pval(motif, score), score |-> score,
   match |-> [j \in 1..motif.size |->
                s.seq[IF strand = "-" THEN i + motif.size + 1 - j ELSE i + j]]]

\* one output line of score_seq; motif_i and seq_i are the indices the call
\* was made with
HitLine(motif, motif_i, s, seq_i, i, strand, score) ==
  [motif_i |-> motif_i, seq_i |-> seq_i, seqname |-> s.name,
   start |-> i + 1, end |-> i + motif.size, strand |-> strand,
   motif |-> motif.name, pvalue |-> Score2Pval(motif, score), score |-> score,
   match |-> SubSeq(s.seq, i + 1, i + motif.size)]

\* score_seq, one turn of one of its two loops: the line for offset i, if
\* the window scores at least the threshold
ScanWindow(motif, motif_i, s, seq_i, i, rc) ==
  LET score == IF rc THEN ScoreSubseqRc(motif, s.seq, i)
               ELSE ScoreSubseq(motif, s.seq, i)
  IN  IF score >= motif.threshold
        THEN <<HitLine(motif, motif_i, s, seq_i, i, IF rc THEN "-" ELSE "+", score)>>
        ELSE <<>>

\* the lines for the offsets lo..hi-1, in the order of the loop
RECURSIVE ScanStrand(_, _, _, _, _, _, _)
ScanStrand(motif, motif_i, s, seq_i, lo, hi, rc) ==
  IF lo >= hi THEN <<>>
  ELSE IF hi = lo + 1 THEN ScanWindow(motif, motif_i, s, seq_i, lo, rc)
  ELSE ScanStrand(motif, motif_i, s, seq_i, lo, (lo + hi) \div 2, rc)
       \o ScanStrand(motif, motif_i, s, seq_i, (lo + hi) \div 2, hi, rc)

\* score_seq with both loops stopping one offset early: C3 does not hold of it
ScoreSeqShort(motif, motif_i, s, seq_i, scan_rc) ==
  IF Len(s.seq) < motif.size \/ motif.threshold = INT_MAX THEN <<>>
  ELSE ScanStrand(motif, motif_i, s, seq_i, 0, Len(s.seq) - motif.size, FALSE)
       \o (IF scan_rc
             THEN ScanStrand(motif, motif_i, s, seq_i, 0, Len(s.seq) - motif.size, TRUE)
             ELSE <<>>)

\* score_seq with the reverse loop before the forward loop: C4 does not hold
\* of it
ScoreSeqReverseFirst(motif, motif_i, s, seq_i, scan_rc) ==
  IF Len(s.seq) < motif.size \/ motif.threshold = INT_MAX THEN <<>>
  ELSE (IF scan_rc
          THEN ScanStrand(motif, motif_i, s, seq_i, 0, Len(s.seq) - motif.size + 1, TRUE)
          ELSE <<>>)
       \o ScanStrand(motif, motif_i, s, seq_i, 0, Len(s.seq) - motif.size + 1, FALSE)

\* score_seq: the lines it writes
ScoreSeq(motif, motif_i, s, seq_i, scan_rc) ==
  LET last == Len(s.seq) - motif.size
  IN  IF Len(s.seq) < motif.size \/ motif.threshold = INT_MAX THEN <<>>
      ELSE ScanStrand(motif, motif_i, s, seq_i, 0, last + 1, FALSE)
           \o (IF scan_rc
                 THEN ScanStrand(motif, motif_i, s, seq_i, 0, last + 1, TRUE)
                 ELSE <<>>)

(***************************************************************************)
(* Invocations.  A run of the program is given by its command line and by  *)
(* the content of the files it names.  An option is <<>> when it is not    *)
(* given and <<value>> when it is:                                         *)
(*   m  -m, the motif file        one  -1, the consensus string            *)
(*   s  -s, the lines of the sequence file                                 *)
(*   b  -b, the comma-separated values      t  -t     p  -p     n  -n      *)
(*   f  whether -f is given     d  whether -d is     r  whether -r is      *)
(*   nl whether the last line of the sequence file ends with a line feed   *)
(***************************************************************************)
Run(m, one, s, b, t, p, n, f) ==
  [m |-> m, one |-> one, s |-> s, b |-> b, t |-> t, p |-> p, n |-> n, f |-> f,
   d |-> FALSE, r |-> FALSE, nl |-> TRUE]

\* -m FILE -s FILE -t 1 with -d, with -r, and with a last line without a
\* line feed
FileRun(m, s, d, r, nl) ==
  [Run(<<m>>, <<>>, <<s>>, <<>>, <<<<1, 1>>>>, <<>>, <<>>, FALSE)
     EXCEPT !.d = d, !.r = r, !.nl = nl]

\* the widest motif of the scanned files, and the longest scanned sequence
MaxW == 2

MaxSeqLen == 3

\* the bytes of the scanned sequences: A, g, T and N
SeqBytes == {65, 103, 84, 78}

Words(lo, hi) == UNION {[1..k -> SeqBytes] : k \in lo..hi}

\* ">s1" and ">s2"
Header1 == <<62, 115, 49>>

Header2 == <<62, 115, 50>>

Fasta1(seq) == <<Header1, seq>>

Fasta2(seq1, seq2) == <<Header1, seq1, Header2, seq2>>

\* rows of a probability matrix
RowSkew == <<Rat(2502, 10000), Rat(2498, 10000), Rat(1, 4), Rat(1, 4)>>

RowStrong == <<Rat(97, 100), Rat(1, 100), Rat(1, 100), Rat(1, 100)>>

RowUniform == <<Rat(1, 4), Rat(1, 4), Rat(1, 4), Rat(1, 4)>>

RowSingle == <<Rat(0, 1), Rat(1, 1), Rat(0, 1), Rat(0, 1)>>

PpmRows == {RowSkew, RowStrong}

\* columns of a count matrix
ColSkew == <<2502, 2498, 2500, 2500>>

ColStrong == <<97, 1, 1, 1>>

ColUniform == <<25, 25, 25, 25>>

\* "m1" and "m2"
Name1 == <<109, 49>>

Name2 == <<109, 50>>

MotifDef(name, line, rows) == [name |-> name, line |-> line, rows |-> rows]

HomerFile(defs) == [fmt |-> "HOMER", bkg |-> <<>>, motifs |-> defs]

MemeFile(bkg, defs) == [fmt |-> "MEME", bkg |-> bkg, motifs |-> defs]

\* the four rows of a JASPAR motif with the given columns
JasparRowsOf(cols) ==
  [i \in 1..4 |-> [let |-> <<65, 67, 71, 84>>[i],
                   counts |-> [j \in 1..Len(cols) |-> cols[j][i]]]]

JasparFile(defs) == [fmt |-> "JASPAR", bkg |-> <<>>, motifs |-> defs]

Matrices(lo, hi) == UNION {[1..w -> PpmRows] : w \in lo..hi}

\* -t values: 1/16, 1/4, 1 and 2
Alphas == {<<1, 16>>, <<1, 4>>, <<1, 1>>, <<2, 1>>}

\* -m FILE -s FILE -t ALPHA [-f]: one HOMER motif, one sequence
ScanRuns ==
  {Run(<<HomerFile(<<MotifDef(Name1, 1, rows)>>)>>, <<>>, <<Fasta1(w)>>,
       <<>>, <<a>>, <<>>, <<>>, f) :
     rows \in Matrices(1, MaxW), w \in Words(1, MaxSeqLen), a \in Alphas,
     f \in BOOLEAN}

\* two motifs and two sequences
OrderSeqs == {<<65, 65, 84>>, <<84, 103, 65>>, <<65, 78, 65, 65>>}

OrderRuns ==
  {Run(<<HomerFile(<<MotifDef(Name1, 1, <<RowSkew>>),
                     MotifDef(Name2, 3, <<RowStrong, RowSkew>>)>>)>>,
       <<>>, <<Fasta2(w1, w2)>>, <<>>, <<a>>, <<>>, <<>>, FALSE) :
     w1 \in OrderSeqs, w2 \in OrderSeqs, a \in {<<1, 1>>, <<2, 1>>}}

\* MEME and JASPAR files
MemeBkgs ==
  {<<>>,
   <<Rat(3, 10), Rat(2, 10), Rat(2, 10), Rat(3, 10)>>,
   <<Rat(0, 1), Rat(3, 10), Rat(3, 10), Rat(4, 10)>>,
   <<Rat(1, 4), NoValue, NoValue, NoValue>>}

\* -b values: complete, below the minimum, unnormalised, too few, too many
UserBkgs ==
  {<<Rat(1, 10), Rat(2, 10), Rat(3, 10), Rat(4, 10)>>,
   <<Rat(0, 1), Rat(3, 10), Rat(3, 10), Rat(4, 10)>>,
   <<Rat(997, 1000), Rat(1, 1000), Rat(1, 1000), Rat(1, 1000)>>,
   <<Rat(1, 1), Rat(1, 1), Rat(1, 1), Rat(1, 1)>>,
   <<Rat(1, 2)>>,
   <<Rat(1, 4), Rat(1, 4), Rat(1, 4), Rat(1, 4), Rat(1, 4)>>}

BkgSeqs == {<<65, 103, 84>>, <<84, 67, 78>>}

MemeRuns ==
  {Run(<<MemeFile(bkg, <<MotifDef(Name1, 9, <<row>>)>>)>>, <<>>, <<Fasta1(w)>>,
       b, <<<<1, 2>>>>, <<>>, <<>>, FALSE) :
     bkg \in MemeBkgs, row \in PpmRows, w \in BkgSeqs,
     b \in {<<>>} \cup {<<u>> : u \in UserBkgs}}

JasparRuns ==
  {Run(<<JasparFile(<<MotifDef(Name1, 1, JasparRowsOf(cols))>>)>>, <<>>,
       <<Fasta1(w)>>, <<>>, <<a>>, <<>>, <<>>, FALSE) :
     cols \in {<<ColSkew>>, <<ColStrong, ColSkew>>}, w \in BkgSeqs, a \in Alphas}

\* -b VALUES -s FILE without motifs: the sequence statistics
StatsRuns ==
  {Run(<<>>, <<>>, s, b, <<>>, <<>>, <<>>, FALSE) :
     s \in {<<>>} \cup {<<Fasta1(w)>> : w \in BkgSeqs},
     b \in {<<>>} \cup {<<u>> : u \in UserBkgs}}

\* -m FILE without sequences: the motifs are printed
PrintRuns ==
  {Run(<<HomerFile(<<MotifDef(Name1, 1, rows)>>)>>, <<>>, <<>>, <<>>, <<a>>,
       <<>>, <<>>, FALSE) : rows \in Matrices(1, MaxW), a \in Alphas}

\* -1 CONSENSUS -s FILE: consensus strings over A, R and N
ConsensusLetters == {65, 82, 78}

ConsensusRuns ==
  {Run(<<>>, <<c>>, <<Fasta1(w)>>, <<>>, <<>>, <<>>, <<>>, f) :
     c \in UNION {[1..k -> ConsensusLetters] : k \in 1..MaxW},
     w \in Words(1, MaxSeqLen), f \in BOOLEAN}

\* -1 ACGT (also in lower case with u, and with a letter that is no IUPAC
\* code) on TTACGTAA, with and without -b, -t, -p, -n and -f
ExampleRuns ==
  {Run(<<>>, <<c>>, <<Fasta1(<<84, 84, 65, 67, 71, 84, 65, 65>>)>>, b, t, p, n, f) :
     c \in {<<65, 67, 71, 84>>, <<97, 99, 103, 117>>, <<65, 88>>},
     b \in {<<>>, <<<<Rat(1, 10), Rat(2, 10), Rat(3, 10), Rat(4, 10)>>>>,
            <<<<Rat(1, 2)>>>>},
     t \in {<<>>, <<<<1, 16>>>>},
     p \in {<<>>, <<5>>, <<0>>},
     n \in {<<>>, <<20>>, <<0>>},
     f \in BOOLEAN}

\* -m and -1 together
BothRuns ==
  {Run(<<HomerFile(<<MotifDef(Name1, 1, <<RowSkew>>)>>)>>, <<<<65>>>>, s,
       <<>>, <<>>, <<>>, <<>>, FALSE) : s \in {<<>>, <<Fasta1(<<65>>)>>}}

\* motifs of MaxPositions - 1, MaxPositions and MaxPositions + 1 positions
WideWidths == {MaxPositions - 1, MaxPositions, MaxPositions + 1}

WideSeq == [i \in 1..MaxPositions |-> 65]

WideHomerRuns ==
  {Run(<<HomerFile(<<MotifDef(Name1, 1, [i \in 1..w |-> RowUniform])>>)>>, <<>>,
       <<Fasta1(WideSeq)>>, <<>>, <<a>>, <<>>, <<>>, FALSE) :
     w \in WideWidths, a \in {<<1, 1>>, <<2, 1>>}}

WideMemeRuns ==
  {Run(<<MemeFile(<<>>, <<MotifDef(Name1, 9, [i \in 1..w |-> RowUniform])>>)>>,
       <<>>, <<Fasta1(WideSeq)>>, <<>>, <<a>>, <<>>, <<>>, FALSE) :
     w \in WideWidths, a \in {<<1, 1>>, <<2, 1>>}}

WideJasparRuns ==
  {Run(<<JasparFile(<<MotifDef(Name1, 1,
                               JasparRowsOf([i \in 1..w |-> ColUniform]))>>)>>,
       <<>>, <<Fasta1(WideSeq)>>, <<>>, <<a>>, <<>>, <<>>, FALSE) :
     w \in WideWidths, a \in {<<1, 1>>, <<2, 1>>}}

WideConsensusRuns ==
  {Run(<<>>, <<[i \in 1..w |-> 78]>>, <<Fasta1(WideSeq)>>, <<>>, <<>>, <<>>,
       <<>>, FALSE) : w \in WideWidths}

\* wide motifs whose cells spread so far that the CDF exceeds MAX_CDF_SIZE:
\* -n 2000000000 -b 0.997,0.001,0.001,0.001
SpreadRuns ==
  {Run(<<HomerFile(<<MotifDef(Name1, 1, [i \in 1..w |-> RowSingle])>>)>>, <<>>,
       s, <<<<Rat(997, 1000), Rat(1, 1000), Rat(1, 1000), Rat(1, 1000)>>>>,
       <<<<1, 2>>>>, <<>>, <<2000000000>>, FALSE) :
     w \in {1} \cup WideWidths, s \in {<<>>, <<Fasta1(WideSeq)>>}}

\* motif files that fail late and sequence files with a sequence that has
\* no line: a JASPAR motif of three rows before the next header or before
\* the end of the file, two motifs, one motif; ">s1" alone, ">s1" before
\* ">s2", bases that are all N
ThreeRows == SubSeq(JasparRowsOf(<<ColSkew>>), 1, 3)

HeapMotifFiles ==
  {JasparFile(<<MotifDef(Name1, 1, ThreeRows),
                MotifDef(Name2, 5, JasparRowsOf(<<ColSkew>>))>>),
   JasparFile(<<MotifDef(Name1, 1, ThreeRows)>>),
   HomerFile(<<MotifDef(Name1, 1, <<RowSkew>>), MotifDef(Name2, 3, <<RowStrong>>)>>),
   HomerFile(<<MotifDef(Name1, 1, <<RowSkew>>)>>)}

HeapFastas ==
  {<<Header1>>, <<Header1, Header2, <<65, 67>>>>, Fasta1(<<78, 78>>),
   Fasta1(<<65, 67>>)}

HeapRuns ==
  {FileRun(m, s, FALSE, FALSE, TRUE) : m \in HeapMotifFiles, s \in HeapFastas}

\* files with equal names, with and without -d: "foo" twice in a MEME and
\* in a JASPAR file, "foo", "m2", "foo" in a HOMER file, no equal names;
\* ">s1" twice, ">s1" and ">s2"
NameFoo == <<102, 111, 111>>

DupMotifFiles ==
  {MemeFile(<<>>, <<MotifDef(NameFoo, 10, <<RowSkew>>),
                    MotifDef(NameFoo, 14, <<RowStrong>>)>>),
   JasparFile(<<MotifDef(NameFoo, 1, JasparRowsOf(<<ColSkew>>)),
                MotifDef(NameFoo, 6, JasparRowsOf(<<ColStrong>>))>>),
   HomerFile(<<MotifDef(NameFoo, 1, <<RowSkew>>), MotifDef(Name2, 3, <<RowStrong>>),
               MotifDef(NameFoo, 5, <<RowSkew>>)>>),
   HomerFile(<<MotifDef(Name1, 1, <<RowSkew>>), MotifDef(Name2, 3, <<RowStrong>>)>>)}

DupFastas ==
  {<<Header1, <<65, 84>>, Header1, <<84, 65>>>>, Fasta2(<<65, 84>>, <<84, 65>>)}

DupRuns ==
  {FileRun(m, s, d, FALSE, TRUE) : m \in DupMotifFiles, s \in DupFastas, d \in BOOLEAN}

\* a name shared by the first two motifs (sequences) and a third name that
\* is the first one followed by __N1_L1
CollideRuns ==
  {FileRun(JasparFile(<<MotifDef(NameFoo, 1, JasparRowsOf(<<ColSkew>>)),
                        MotifDef(NameFoo, 6, JasparRowsOf(<<ColStrong>>)),
                        MotifDef(NameFoo \o IntToCharArray(1, 1), 11,
                                 JasparRowsOf(<<ColSkew>>))>>),
           Fasta1(<<65, 84>>), d, FALSE, TRUE) : d \in BOOLEAN}
  \cup {FileRun(HomerFile(<<MotifDef(Name1, 1, <<RowSkew>>)>>),
                <<Header1, <<65, 84>>, Header1, <<84, 65>>,
                  Header1 \o IntToCharArray(1, 1), <<65, 84>>>>,
                d, FALSE, TRUE) : d \in BOOLEAN}

\* rows 0.4 0.2 0.2 x whose sum is just above or below 0.9, 0.98, 1.02 and
\* 1.1, in a HOMER and in a MEME file
NearRow(x) == <<Rat(4, 10), Rat(2, 10), Rat(2, 10), Rat(x, 10000)>>

NearRows == {NearRow(x) : x \in {996, 1004, 1796, 1804, 2196, 2204, 2996, 3004}}

NearRuns ==
  {FileRun(m, Fasta1(<<65, 84>>), FALSE, FALSE, TRUE) :
     m \in {HomerFile(<<MotifDef(Name1, 1, <<row>>)>>) : row \in NearRows}
          \cup {MemeFile(<<>>, <<MotifDef(Name1, 9, <<RowSkew, row>>)>>) :
                   row \in NearRows}}

\* rows whose four values are all above or all below the background, their
\* sum within 0.02 of 1: every score of the position has the same sign
RowAbove == <<Rat(254, 1000), Rat(254, 1000), Rat(254, 1000), Rat(254, 1000)>>

RowBelow == <<Rat(246, 1000), Rat(246, 1000), Rat(246, 1000), Rat(246, 1000)>>

SignedMatrices ==
  {<<RowAbove>>, <<RowBelow>>, <<RowAbove, RowAbove>>, <<RowBelow, RowBelow>>,
   <<RowAbove, RowBelow>>, <<RowAbove, RowSkew>>}

SignedRuns ==
  {FileRun(HomerFile(<<MotifDef(Name1, 1, rows)>>), Fasta1(<<65, 67, 84>>),
           FALSE, r, TRUE) : rows \in SignedMatrices, r \in BOOLEAN}
  \cup {Run(<<HomerFile(<<MotifDef(Name1, 1, rows)>>)>>, <<>>,
            <<Fasta1(<<65, 67, 84>>)>>, <<>>, <<<<2, 1>>>>, <<>>, <<>>, FALSE) :
          rows \in SignedMatrices}
  \cup {Run(<<MemeFile(<<>>, <<MotifDef(Name1, 9, rows)>>)>>, <<>>, <<>>, <<>>,
            <<a>>, <<>>, <<>>, FALSE) :
          rows \in SignedMatrices, a \in {<<1, 4>>, <<1, 1>>}}

\* a motif without a row before one with a row, in a HOMER and in a MEME
\* file, printed and scanned with -t 1 and -t 2
EmptyRuns ==
  {Run(<<m>>, <<>>, s, <<>>, <<a>>, <<>>, <<>>, FALSE) :
     m \in {HomerFile(<<MotifDef(Name1, 1, <<>>), MotifDef(Name2, 2, <<RowStrong>>)>>),
            MemeFile(<<>>, <<MotifDef(Name1, 3, <<>>),
                             MotifDef(Name2, 5, <<RowStrong>>)>>)},
     s \in {<<>>, <<Fasta1(<<65, 67, 78>>)>>},
     a \in {<<1, 1>>, <<2, 1>>}}

\* MEME files of two motifs with one more "Background letter frequencies",
\* ALPHABET or strands line, before the first MOTIF line, between the two
\* or behind the second; with and without the background lines at the top
AgainLine(kind, after) == [kind |-> kind, after |-> after]

MemeFileAgain(bkg, defs, again) ==
  [fmt |-> "MEME", bkg |-> bkg, motifs |-> defs, again |-> again]

AgainRuns ==
  {FileRun(MemeFileAgain(bkg, <<MotifDef(Name1, 9, <<RowSkew>>),
                                 MotifDef(Name2, 13, <<RowStrong>>)>>,
                         <<AgainLine(kind, after)>>),
           Fasta1(<<65, 84>>), FALSE, FALSE, TRUE) :
     bkg \in {<<>>, UniformBkg}, kind \in {"bkg", "alph", "strand"}, after \in 0..2}
  \ {FileRun(MemeFileAgain(<<>>, <<MotifDef(Name1, 9, <<RowSkew>>),
                                   MotifDef(Name2, 13, <<RowStrong>>)>>,
                           <<AgainLine("bkg", 0)>>),
             Fasta1(<<65, 84>>), FALSE, FALSE, TRUE)}

\* a negative -p: with -p -1000 and the default -n every x of calc_score is
\* a division by 0, with -p -1 the x of the probability 0 is negative
NegativeRun(p, rows, s) ==
  Run(<<HomerFile(<<MotifDef(Name1, 1, rows)>>)>>, <<>>, s, <<>>, <<<<1, 1>>>>,
      <<p>>, <<>>, FALSE)

NegativeRuns ==
  {NegativeRun(-1000, rows, s) :
     rows \in {<<RowUniform>>, <<RowUniform, RowUniform>>},
     s \in {<<>>, <<Fasta1(<<65, 67, 78>>)>>}}
  \cup {NegativeRun(-1, rows, s) :
          rows \in {<<RowSingle>>, <<RowSingle, RowSingle>>},
          s \in {<<>>, <<Fasta1(<<65, 67, 78>>)>>}}

\* sequence files read with and without a line feed behind their last
\* line: ">s1" and then ACGTA; ACG, TTTTA; ACGTT, CC; ACGTTGG and a carriage
\* return, CC; ACGT, A; AC, ">s2"; nothing; ACGT and a carriage return
OpenFastas ==
  {<<Header1, <<65, 67, 71, 84, 65>>>>,
   <<Header1, <<65, 67, 71>>, <<84, 84, 84, 84, 65>>>>,
   <<Header1, <<65, 67, 71, 84, 84>>, <<67, 67>>>>,
   <<Header1, <<65, 67, 71, 84, 84, 71, 71, 13>>, <<67, 67>>>>,
   <<Header1, <<65, 67, 71, 84>>, <<65>>>>,
   <<Header1, <<65, 67>>, Header2>>,
   <<Header1>>,
   <<Header1, <<65, 67, 71, 84, 13>>>>}

OpenRuns ==
  {FileRun(HomerFile(<<MotifDef(Name1, 1, <<RowSkew>>)>>), s, FALSE, FALSE, nl) :
     s \in OpenFastas, nl \in BOOLEAN}
  \cup {[Run(<<>>, <<>>, <<s>>, <<>>, <<>>, <<>>, <<>>, FALSE) EXCEPT !.nl = nl] :
           s \in OpenFastas, nl \in BOOLEAN}

\* names of more than one word, with and without -r: the JASPAR motif
\* "m1 x", the sequences "s1 d" and "s2", a tab, "d"
TrimRuns ==
  {FileRun(JasparFile(<<MotifDef(Name1 \o <<32, 120>>, 1, JasparRowsOf(<<ColSkew>>))>>),
           <<Header1 \o <<32, 100>>, <<65, 84>>, Header2 \o <<9, 100>>, <<84, 65>>>>,
           FALSE, r, TRUE) : r \in BOOLEAN}
  \cup {FileRun(HomerFile(<<MotifDef(Name1, 1, <<RowSkew>>)>>),
                <<Header1 \o <<32, 100>>, w>>, FALSE, r, TRUE) :
           r \in BOOLEAN, w \in Words(2, 2)}

\* names of MAX_NAME_SIZE - 1, MAX_NAME_SIZE and more bytes, all "x"
LongName(n) == [i \in 1..n |-> 120]

LongMotifFiles ==
  {MemeFile(<<>>, <<MotifDef(LongName(n), 5, <<RowSkew>>)>>) :
     n \in {MAX_NAME_SIZE - 1, MAX_NAME_SIZE, MAX_NAME_SIZE + 1}}
  \cup {HomerFile(<<MotifDef(LongName(n), 1, <<RowSkew>>)>>) :
           n \in {MAX_NAME_SIZE - 1, MAX_NAME_SIZE}}
  \cup {JasparFile(<<MotifDef(LongName(n), 1, JasparRowsOf(<<ColSkew>>))>>) :
           n \in {MAX_NAME_SIZE - 1, MAX_NAME_SIZE}}

LongRuns ==
  {FileRun(m, Fasta1(<<65, 84>>), FALSE, FALSE, TRUE) : m \in LongMotifFiles}
  \cup {FileRun(HomerFile(<<MotifDef(Name1, 1, <<RowSkew>>)>>),
                <<<<62>> \o LongName(n), <<65, 84>>>>, FALSE, FALSE, TRUE) :
           n \in {SEQ_NAME_MAX_CHAR - 1, SEQ_NAME_MAX_CHAR, SEQ_NAME_MAX_CHAR + 44}}

\* motifs of two positions under a background that is not uniform, from
\* the MEME file or from -b
CdfRuns ==
  {[FileRun(MemeFile(bkg, <<MotifDef(Name1, 9, rows)>>), Fasta1(<<65, 103, 84>>),
            FALSE, FALSE, TRUE) EXCEPT !.b = b, !.t = <<a>>] :
     bkg \in {<<>>, <<Rat(3, 10), Rat(2, 10), Rat(2, 10), Rat(3, 10)>>},
     rows \in Matrices(2, 2),
     b \in {<<>>, <<<<Rat(1, 10), Rat(2, 10), Rat(3, 10), Rat(4, 10)>>>>},
     a \in {<<1, 4>>, <<1, 1>>}}

(***************************************************************************)
(* The program.                                                            *)
(*   input    the invocation                                               *)
(*   pc       where main stands; "exit_success" and "exit_failure" are the *)
(*            two ends of a run, "undefined" follows a write past the end  *)
(*            of a PWM array or of a name buffer, a read before the start  *)
(*            of the line buffer, a getline into the freed line buffer, a  *)
(*            signed overflow in fill_cdf, or an index outside the CDF     *)
(*   args     the global args                                              *)
(*   motifs   the motifs array         seqs   the loaded sequences         *)
(*   out      the hit lines written so far                                 *)
(*   report   the motifs or sequence statistics printed so far             *)
(*   motif_i, seq_i   the indices of the two loops of main                 *)
(*   heap     what the process holds: "motifs" and "seqs" (the arrays and  *)
(*            what hangs on them), "files" (the open files), "line" (a     *)
(*            getline buffer), "is_dup" (the array of find_motif_dupes),   *)
(*            "cdf" (the CDF of the motif of this turn); "wild" once free  *)
(*            was handed a pointer that was never assigned                 *)
(***************************************************************************)
VARIABLES input, pc, args, motifs, seqs, out, report, motif_i, seq_i, heap

vars == <<input, pc, args, motifs, seqs, out, report, motif_i, seq_i, heap>>

\* the initialiser of args (lines 261-273)
InitArgs ==
  [bkg |-> UniformBkg, pvalue |-> DEFAULT_PVALUE, nsites |-> DEFAULT_NSITES,
   pseudocount |-> DEFAULT_PSEUDOCOUNT, scan_rc |-> TRUE, use_user_bkg |-> FALSE,
   dedup |-> FALSE, trim_names |-> FALSE]

\* the args with, for the time of load_motifs, what the build makes of the
\* conversion of a non-finite double to int
WithNonFinite(a, c) ==
  [f \in DOMAIN a \cup {"nonfinite"} |-> IF f = "nonfinite" THEN c ELSE a[f]]

WithoutNonFinite(a) == [f \in DOMAIN a \ {"nonfinite"} |-> a[f]]

Init ==
  /\ \/ input \in ScanRuns
     \/ input \in OrderRuns
     \/ input \in MemeRuns
     \/ input \in JasparRuns
     \/ input \in StatsRuns
     \/ input \in PrintRuns
     \/ input \in ConsensusRuns
     \/ input \in ExampleRuns
     \/ input \in BothRuns
     \/ input \in WideHomerRuns
     \/ input \in WideMemeRuns
     \/ input \in WideJasparRuns
     \/ input \in WideConsensusRuns
     \/ input \in SpreadRuns
     \/ input \in HeapRuns
     \/ input \in DupRuns
     \/ input \in NearRuns
     \/ input \in OpenRuns
     \/ input \in TrimRuns
     \/ input \in LongRuns
     \/ input \in CdfRuns
     \/ input \in SignedRuns
     \/ input \in NegativeRuns
     \/ input \in EmptyRuns
     \/ input \in CollideRuns
     \/ input \in AgainRuns
  /\ pc = "getopt"
  /\ args = InitArgs
  /\ motifs = <<>>
  /\ seqs = <<>>
  /\ out = <<>>
  /\ report = <<>>
  /\ motif_i = 0
  /\ seq_i = 0
  /\ heap = {"motifs", "seqs"}

has_motifs == input.m # <<>>

has_consensus == input.one # <<>>

has_seqs == input.s # <<>>

\* main, lines 1845-1941: the options, the test that one of -m, -1, -s is
\* given, and parse_user_bkg
ParseArgs ==
  /\ pc = "getopt"
  /\ LET a1 == [InitArgs EXCEPT
                  !.use_user_bkg = input.b # <<>>,
                  !.scan_rc = ~input.f,
                  !.dedup = input.d,
                  !.trim_names = input.r,
                  !.pvalue = IF input.t # <<>> THEN input.t[1] ELSE @,
                  !.pseudocount = IF input.p # <<>> THEN input.p[1] ELSE @,
                  !.nsites = IF input.n # <<>> THEN input.n[1] ELSE @]
         ub == IF input.b # <<>> THEN ParseUserBkg(input.b[1])
               ELSE [ok |-> TRUE, bkg |-> a1.bkg]
         bad == \/ has_motifs /\ has_consensus
                \/ a1.pseudocount = 0
                \/ a1.nsites = 0
                \/ ~has_seqs /\ ~has_motifs /\ ~has_consensus
                \/ ~ub.ok
     IN  /\ args' = IF bad THEN a1 ELSE [a1 EXCEPT !.bkg = ub.bkg]
         /\ pc' = IF bad THEN "exit_failure"
                  ELSE IF has_motifs \/ has_consensus THEN "motifs" ELSE "seqs"
         /\ heap' = IF bad THEN {} ELSE heap \cup {"files"}
  /\ UNCHANGED <<input, motifs, seqs, out, report, motif_i, seq_i>>

\* free_seqs frees seqs[i] for every sequence; the array of a sequence
\* without a line was never allocated, and its pointer never assigned
FreesUnassigned(ss) == \E i \in 1..Len(ss) : ~ss[i].alloc

\* badexit: free_motifs, free_seqs and close_files release what they know
\* of, which leaves what is in kept; wild tells that one of the pointers
\* freed was never assigned, and then the free may do anything
Released(h, kept, wild) ==
  IF wild THEN {h \cap kept, (h \cap kept) \cup {"wild"}} ELSE {h \cap kept}

\* where main goes once the motifs are there
AfterMotifs == IF has_seqs THEN "seqs" ELSE "cdf"

\* main, lines 1943-1950: -1 resets the background, the p-value, nsites and
\* the pseudocount, then builds the motif
AddConsensus ==
  /\ pc = "motifs"
  /\ has_consensus
  /\ \E r \in {AddConsensusMotif(input.one[1],
                                  WithNonFinite(
                                    [args EXCEPT !.bkg = UniformBkg, !.pvalue = ROne,
                                                 !.nsites = 1000, !.pseudocount = 1],
                                    0))} :
       /\ args' = WithoutNonFinite(r.args)
       /\ motifs' = r.motifs
       /\ pc' = IF \/ \E k \in 1..Len(r.motifs) : PwmOverflow(r.motifs[k])
                   \/ NameOverflow("CONSENSUS", input.one[1])
                  THEN "undefined"
                ELSE IF ~r.ok THEN "exit_failure"
                ELSE AfterMotifs
       /\ heap' = IF r.ok THEN heap ELSE {}
  /\ UNCHANGED <<input, seqs, out, report, motif_i, seq_i>>

\* main, lines 1953-1956: load_motifs and find_motif_dupes.  A failure of
\* load_motifs leaves what read_jaspar did not free; find_motif_dupes
\* frees is_dup before it fails and keeps it otherwise.
LoadMotifs ==
  /\ pc = "motifs"
  /\ ~has_consensus
  /\ \E c \in NonFiniteInts :
     \E l \in {LoadMotifsFile(input.m[1], WithNonFinite(args, c))} :
     \E r \in {MotifDupes(l, args.dedup)} :
       /\ args' = WithoutNonFinite(r.args)
       /\ motifs' = r.motifs
       /\ pc' = IF \/ \E k \in 1..Len(l.motifs) : PwmOverflow(l.motifs[k])
                   \/ \E k \in 1..Len(l.motifs) :
                        NameOverflow(input.m[1].fmt, input.m[1].motifs[k].name)
                   \/ MemeLineReused(input.m[1])
                  THEN "undefined"
                ELSE IF ~r.ok THEN "exit_failure"
                ELSE AfterMotifs
       /\ heap' = IF ~l.ok
                     THEN (IF JasparLineLeaked(input.m[1]) THEN {"line"} ELSE {})
                   ELSE IF ~r.ok THEN {}
                   ELSE IF Len(r.motifs) = 1 THEN heap
                   ELSE heap \cup {"is_dup"}
  /\ UNCHANGED <<input, seqs, out, report, motif_i, seq_i>>

\* main, lines 1978-1980: load_seqs, trim_seq_names with -r, and
\* find_seq_dupes, which frees its is_dup
ReadSeqs ==
  /\ pc = "seqs"
  /\ \E l \in {LoadSeqs(input.s[1], input.nl)} :
     \E r \in {IF ~l.ok THEN [ok |-> FALSE, seqs |-> l.seqs]
               ELSE SeqDupes(IF args.trim_names THEN TrimSeqNames(l.seqs)
                             ELSE l.seqs, args.dedup)} :
       /\ seqs' = r.seqs
       /\ pc' = IF l.oob THEN "undefined"
                ELSE IF ~r.ok THEN "exit_failure"
                ELSE IF has_motifs \/ has_consensus THEN "cdf" ELSE "stats"
       /\ heap' \in IF r.ok THEN {heap}
                    ELSE Released(heap, {"is_dup"}, FreesUnassigned(r.seqs))
  /\ UNCHANGED <<input, args, motifs, out, report, motif_i, seq_i>>

\* main, lines 1993-1994: print_seq_stats
PrintSeqStats ==
  /\ pc = "stats"
  /\ report' = [k \in 1..Len(seqs) |->
                  [name |-> seqs[k].name, line_num |-> seqs[k].line_num,
                   size |-> Len(seqs[k].seq),
                   unknowns |-> Len(seqs[k].seq) - StandardBases(seqs[k].seq)]]
  /\ pc' = "close"
  /\ UNCHANGED <<input, args, motifs, seqs, out, motif_i, seq_i, heap>>

\* fill_cdf, lines 404-405: max - min or size * max_score + 1 is beyond
\* INT_MAX
CdfSizeOverflow(motif) ==
  \/ motif.min < motif.max - INT_MAX
  \/ motif.size > 0 /\ motif.max - motif.min > (INT_MAX - 1) \div motif.size

\* main, lines 1962 and 2022: fill_cdf for the motif of this turn.  When
\* fill_cdf fails it has set cdf_size and not yet assigned cdf, which
\* free_motifs then frees.  A signed overflow in its first two lines is
\* undefined.
BuildCdf ==
  /\ pc = "cdf"
  /\ \E r \in {IF CdfSizeOverflow(motifs[motif_i + 1])
                 THEN [ok |-> FALSE, motif |-> motifs[motif_i + 1]]
               ELSE FillCdf(motifs[motif_i + 1], args.bkg)} :
       /\ motifs' = [motifs EXCEPT ![motif_i + 1] = r.motif]
       /\ pc' = IF CdfSizeOverflow(motifs[motif_i + 1]) THEN "undefined"
                ELSE IF ~r.ok THEN "exit_failure"
                ELSE IF ~CdfWritesIn(r.motif, OnesCdf, 0, args.bkg) THEN "undefined"
                ELSE "threshold"
       /\ heap' \in IF r.ok \/ CdfSizeOverflow(motifs[motif_i + 1])
                      THEN {heap \cup {"cdf"}}
                    ELSE Released(heap, {"is_dup"}, TRUE)
  /\ UNCHANGED <<input, args, seqs, out, report, motif_i, seq_i>>

\* main without lines 1964 and 2024, the threshold of -1 left as
\* set_threshold computed it: C7 does not hold of it
KeepThreshold(ms) == ms

\* main, lines 1964 and 2024: with -1 the threshold of motifs[0] becomes
\* its max_score
ConsensusThreshold(ms) ==
  IF has_consensus THEN [ms EXCEPT ![1].threshold = ms[1].max_score] ELSE ms

\* main, lines 1963-1964 and 2023-2024: set_threshold, and with -1 the
\* threshold of motifs[0] becomes its max_score
PrepareThreshold ==
  /\ pc = "threshold"
  /\ motifs' = ConsensusThreshold(
                  [motifs EXCEPT ![motif_i + 1] = SetThreshold(@, args.pvalue)])
  /\ seq_i' = 0
  /\ pc' = IF \E m \in {SetThreshold(motifs[motif_i + 1], args.pvalue)} :
                ~InCdf(m, ScoreIndex(m, m.max_score))
             THEN "undefined"
           ELSE IF has_seqs THEN "scan" ELSE "print"
  /\ UNCHANGED <<input, args, seqs, out, report, motif_i, heap>>

\* main, lines 2025-2030: score_seq for the sequence of this turn
Scan ==
  /\ pc = "scan"
  /\ \E lines \in {ScoreSeq(motifs[motif_i + 1], motif_i, seqs[seq_i + 1], seq_i,
                             args.scan_rc)} :
       /\ out' = out \o lines
       /\ pc' = IF \E h \in 1..Len(lines) :
                     ~InCdf(motifs[motif_i + 1],
                            ScoreIndex(motifs[motif_i + 1], lines[h].score))
                  THEN "undefined"
                ELSE IF seq_i + 1 < Len(seqs) THEN "scan" ELSE "free"
  /\ seq_i' = seq_i + 1
  /\ UNCHANGED <<input, args, motifs, seqs, report, motif_i, heap>>

\* main, lines 1965-1966: print_motif
PrintMotif ==
  /\ pc = "print"
  /\ LET m == motifs[motif_i + 1]
     IN  report' = Append(report,
                     [name |-> m.name, n |-> motif_i + 1, line_num |-> m.file_line_num,
                      max_score |-> m.max_score, threshold |-> m.threshold,
                      pwm |-> [k \in 1..m.size |-> SubSeq(RowAt(m.pwm, k - 1), 1, 4)]])
  /\ pc' = IF \A s \in PrintMotifScores(motifs[motif_i + 1]) :
                InCdf(motifs[motif_i + 1], ScoreIndex(motifs[motif_i + 1], s))
             THEN "free" ELSE "undefined"
  /\ UNCHANGED <<input, args, motifs, seqs, out, motif_i, seq_i, heap>>

\* main without lines 1967-1968 and 2031-2032, the CDF of a motif kept
\* when the loop goes on to the next motif: C19 does not hold of it
KeptCdf(motif) == motif

\* main, lines 1967-1968 and 2031-2032: free(motifs[i]->cdf) and
\* cdf_size = 0
FreedCdf(motif) == [motif EXCEPT !.cdf = NoCdf, !.cdf_size = 0]

\* main, lines 1967-1968 and 2031-2032: the CDF is freed, and the loop
\* over the motifs goes on
FreeCdf ==
  /\ pc = "free"
  /\ motifs' = [motifs EXCEPT ![motif_i + 1] = FreedCdf(@)]
  /\ motif_i' = motif_i + 1
  /\ pc' = IF motif_i + 1 < Len(motifs) THEN "cdf" ELSE "close"
  /\ heap' = heap \ {"cdf"}
  /\ UNCHANGED <<input, args, seqs, out, report, seq_i>>

\* main, lines 2043-2047: free_motifs, free_seqs, close_files, return
Exit ==
  /\ pc = "close"
  /\ pc' = "exit_success"
  /\ heap' \in Released(heap, {"is_dup"}, FreesUnassigned(seqs))
  /\ UNCHANGED <<input, args, motifs, seqs, out, report, motif_i, seq_i>>

Next ==
  \/ ParseArgs
  \/ AddConsensus
  \/ LoadMotifs
  \/ ReadSeqs
  \/ PrintSeqStats
  \/ BuildCdf
  \/ PrepareThreshold
  \/ Scan
  \/ PrintMotif
  \/ FreeCdf
  \/ Exit

Spec == Init /\ [][Next]_vars

(***************************************************************************)
(* Properties.  The hit lines of a run are in `out`, in the order they     *)
(* were written; the operators below read them back.                       *)
(***************************************************************************)
\* the bytes the scanner scores as bases: A, C, G, T, U in either case
StandardBytes == {65, 97, 67, 99, 71, 103, 84, 116, 85, 117}

\* the sum of f[lo..hi]
RECURSIVE RangeSum(_, _, _)
RangeSum(f, lo, hi) ==
  IF lo > hi THEN 0
  ELSE IF lo = hi THEN f[lo]
  ELSE RangeSum(f, lo, (lo + hi) \div 2) + RangeSum(f, (lo + hi) \div 2 + 1, hi)

\* the score of the W bytes of seq from 0-based offset i on a table of rows
WindowScore(rows, seq, i, W) ==
  RangeSum(Table([j \in 1..W |-> rows[j][char2index[seq[i + j] + 1] + 1]]), 1, W)

\* the 0-based start offsets score_seq has to look at
Offsets(seq, W) == IF Len(seq) < W THEN {} ELSE 0..(Len(seq) - W)

\* the lines written for motif m and sequence k (0-based) on a strand
Hits(m, k, strand) ==
  {h \in 1..Len(out) :
     out[h].motif_i = m /\ out[h].seq_i = k /\ out[h].strand = strand}

HitsAt(m, k, strand, i) == {h \in Hits(m, k, strand) : out[h].start = i + 1}

\* score_seq has returned for motif m and sequence k
Done(m, k) ==
  \/ m < motif_i
  \/ m = motif_i /\ pc \in {"scan", "free"} /\ k < seq_i

\* load_motifs or add_consensus_motif has returned, and no later step failed
MotifsReady ==
  /\ motifs # <<>>
  /\ pc \in {"seqs", "cdf", "threshold", "scan", "print", "free", "close",
             "exit_success"}

AmbiguityFree(seq, i, W) == \A j \in 1..W : seq[i + j] \in StandardBytes

(***************************************************************************)
(* C1.  A window that holds a byte other than A, C, G, T, U (either case)  *)
(* is never written as a hit, on either strand, for any motif of at most   *)
(* 50 positions and any p-value threshold above 0.                         *)
(***************************************************************************)
C1_NoAmbiguousHit ==
  \A h \in 1..Len(out) :
    (args.pvalue[1] > 0 /\ motifs[out[h].motif_i + 1].size <= 50)
      => AmbiguityFree(seqs[out[h].seq_i + 1].seq, out[h].start - 1,
                       motifs[out[h].motif_i + 1].size)

\* a sequence with an N in a scanned window next to a window that is a hit
C1_Witness ==
  /\ pc = "free"
  /\ Len(out) > 0
  /\ \E k \in 1..Len(seqs) :
       /\ Done(motif_i, k - 1)
       /\ Len(seqs[k].seq) >= motifs[motif_i + 1].size
       /\ \E j \in 1..Len(seqs[k].seq) : seqs[k].seq[j] = 78
       /\ Hits(motif_i, k - 1, "+") # {}

(***************************************************************************)
(* C2.  For a motif of a motif file whose threshold is not INT_MAX, an     *)
(* ambiguity-free window of a scanned strand is written as a hit if and    *)
(* only if the p-value of its score, cdf[score - W * min], is at most the  *)
(* -t value; a window whose p-value equals the -t value is written.        *)
(***************************************************************************)
C2_Strand(m, k, strand, rows) ==
  \A i \in Offsets(seqs[k + 1].seq, motifs[m + 1].size) :
    AmbiguityFree(seqs[k + 1].seq, i, motifs[m + 1].size) =>
      (HitsAt(m, k, strand, i) # {}
         <=> RLeq(Score2Pval(motifs[m + 1],
                             WindowScore(rows, seqs[k + 1].seq, i, motifs[m + 1].size)),
                  args.pvalue))

C2_HitIffAtOrBelow ==
  (has_motifs /\ ~has_consensus /\ pc \in {"scan", "free"}) =>
    \A k \in 0..(Len(seqs) - 1) :
      (Done(motif_i, k) /\ motifs[motif_i + 1].threshold # INT_MAX) =>
        /\ C2_Strand(motif_i, k, "+", motifs[motif_i + 1].pwm)
        /\ args.scan_rc => C2_Strand(motif_i, k, "-", motifs[motif_i + 1].pwm_rc)

(***************************************************************************)
(* C3.  For a sequence at least as long as the motif and a threshold T     *)
(* other than INT_MAX, score_seq looks at the offsets 0..|seq|-W; the      *)
(* score of a window is the sum of its cells in pwm (pwm_rc on the reverse *)
(* pass); each strand gets exactly one line for every offset with score    *)
(* >= T and no other line; a shorter sequence gets no line; the reverse    *)
(* pass runs only without -f.                                              *)
(***************************************************************************)
C3_Strand(m, k, strand, rows) ==
  LET seq == seqs[k + 1].seq
      W   == motifs[m + 1].size
  IN  /\ \A i \in Offsets(seq, W) :
           Cardinality(HitsAt(m, k, strand, i)) =
             IF WindowScore(rows, seq, i, W) >= motifs[m + 1].threshold
               THEN 1 ELSE 0
      /\ \A h \in Hits(m, k, strand) :
           /\ out[h].start - 1 \in Offsets(seq, W)
           /\ out[h].score = WindowScore(rows, seq, out[h].start - 1, W)

C3_OneLinePerPassingOffset ==
  \A m \in 0..(Len(motifs) - 1), k \in 0..(Len(seqs) - 1) :
    (Done(m, k) /\ motifs[m + 1].threshold # INT_MAX) =>
      /\ C3_Strand(m, k, "+", motifs[m + 1].pwm)
      /\ IF input.f THEN Hits(m, k, "-") = {}
         ELSE C3_Strand(m, k, "-", motifs[m + 1].pwm_rc)

\* two overlapping windows of one strand are both hits
C3_Witness ==
  \E a, b \in 1..Len(out) :
    /\ out[a].motif_i = out[b].motif_i
    /\ out[a].seq_i = out[b].seq_i
    /\ out[a].strand = out[b].strand
    /\ out[b].start = out[a].start + 1
    /\ out[a].end >= out[b].start
    /\ Done(out[a].motif_i, out[a].seq_i)

(***************************************************************************)
(* C4.  The hit lines are written in strictly increasing lexicographic     *)
(* order of (motif index, sequence index, strand is reverse, start).       *)
(***************************************************************************)
IsReverse(h) == IF out[h].strand = "-" THEN 1 ELSE 0

Precedes(a, b) ==
  \/ out[a].motif_i < out[b].motif_i
  \/ /\ out[a].motif_i = out[b].motif_i
     /\ \/ out[a].seq_i < out[b].seq_i
        \/ /\ out[a].seq_i = out[b].seq_i
           /\ \/ IsReverse(a) < IsReverse(b)
              \/ IsReverse(a) = IsReverse(b) /\ out[a].start < out[b].start

C4_OutputOrder ==
  \A a, b \in 1..Len(out) : a < b => Precedes(a, b)

\* hits of two motifs, of two sequences, of both strands and of two starts
C4_Witness ==
  /\ pc = "exit_success"
  /\ \E a, b \in 1..Len(out) : out[a].motif_i # out[b].motif_i
  /\ \E a, b \in 1..Len(out) :
       out[a].motif_i = out[b].motif_i /\ out[a].seq_i # out[b].seq_i
  /\ \E a, b \in 1..Len(out) :
       /\ out[a].motif_i = out[b].motif_i /\ out[a].seq_i = out[b].seq_i
       /\ out[a].strand = "+" /\ out[b].strand = "-"
       /\ out[a].start > out[b].start

(***************************************************************************)
(* C5.  A hit line for the window at 0-based offset i of a motif of W      *)
(* positions has start = i + 1 and end = i + W, counted on the forward     *)
(* strand, and its match field is the W bytes seq[i..i+W-1] as they are in *)
(* the sequence, on "+" lines and on "-" lines alike.                      *)
(***************************************************************************)
C5_ForwardCoordinates ==
  \A h \in 1..Len(out) :
    LET M == motifs[out[h].motif_i + 1]
        S == seqs[out[h].seq_i + 1].seq
        i == out[h].start - 1
    IN  /\ i \in Offsets(S, M.size)
        /\ out[h].end = i + M.size
        /\ out[h].match = [j \in 1..M.size |-> S[i + j]]
        /\ out[h].score = WindowScore(IF out[h].strand = "-" THEN M.pwm_rc ELSE M.pwm,
                                      S, i, M.size)
        /\ out[h].score >= M.threshold

\* a "-" line past the first offset whose window holds a lower-case byte and
\* does not read the same backwards
C5_Witness ==
  \E h \in 1..Len(out) :
    /\ out[h].strand = "-"
    /\ out[h].start > 1
    /\ Len(out[h].match) = 2
    /\ out[h].match[1] # out[h].match[2]
    /\ \E j \in 1..2 : out[h].match[j] > 96

(***************************************************************************)
(* C6.  After complete_motifs, for every motif and every position i in     *)
(* 0..W-1, row W-1-i of pwm_rc holds the T, G, C, A cells of row i of pwm  *)
(* in its A, C, G, T cells and the ambiguity score in its fifth cell; so   *)
(* the pwm_rc score of a window is the pwm score of its reverse            *)
(* complement.                                                             *)
(***************************************************************************)
Complement(b) ==
  CASE b = 65 -> 84 [] b = 97 -> 116
    [] b = 67 -> 71 [] b = 99 -> 103
    [] b = 71 -> 67 [] b = 103 -> 99
    [] b \in {84, 85} -> 65 [] b \in {116, 117} -> 97
    [] OTHER -> b

ReverseComplement(w) == [j \in 1..Len(w) |-> Complement(w[Len(w) + 1 - j])]

\* the window sums are compared for motifs whose cells are finite scores
\* (M.min > INT_MIN); the mirrored rows are compared for every motif
C6_ReverseTable ==
  MotifsReady =>
    \A m \in 1..Len(motifs) :
      LET M == motifs[m]
          W == M.size
      IN  /\ \A i \in 0..(W - 1) :
               RowAt(M.pwm_rc, W - 1 - i) =
                 <<RowAt(M.pwm, i)[4], RowAt(M.pwm, i)[3], RowAt(M.pwm, i)[2],
                   RowAt(M.pwm, i)[1], AMBIGUITY_SCORE>>
          /\ \A k \in 1..Len(seqs) :
               \A i \in Offsets(seqs[k].seq, W) :
                 M.min > INT_MIN =>
                 WindowScore(M.pwm_rc, SubSeq(seqs[k].seq, i + 1, i + W), 0, W)
                   = WindowScore(M.pwm,
                                 ReverseComplement(SubSeq(seqs[k].seq, i + 1, i + W)),
                                 0, W)

\* a motif of two different rows, neither of them its own complement, and a
\* sequence with a window for it
C6_Witness ==
  /\ pc = "scan"
  /\ motifs[motif_i + 1].size = 2
  /\ RowAt(motifs[motif_i + 1].pwm, 0) # RowAt(motifs[motif_i + 1].pwm, 1)
  /\ RowAt(motifs[motif_i + 1].pwm, 0)[1] # RowAt(motifs[motif_i + 1].pwm, 0)[4]
  /\ \E k \in 1..Len(seqs) : Len(seqs[k].seq) > 2

(***************************************************************************)
(* C7.  With -1 CONSENSUS (valid IUPAC letters, 1 to 50 of them) and -b,   *)
(* -t, -p, -n values that the option parsing accepts, the motif is the one *)
(* built with the uniform background, nsites 1000 and pseudocount 1, its   *)
(* threshold is its max_score, and a window gets a "+" line if and only if *)
(* each of its bases (either case, U as T) is one the IUPAC letter at the  *)
(* same position stands for; ACGT on TTACGTAA gives one "+" line and one   *)
(* "-" line, both at 3..6.  The run fails only on a malformed -b, on -p 0, *)
(* on -n 0 or on unreadable sequences.                                     *)
(***************************************************************************)
Iupac ==
  65 :> {0} @@ 67 :> {1} @@ 71 :> {2} @@ 84 :> {3} @@ 85 :> {3}
  @@ 82 :> {0, 2} @@ 89 :> {1, 3} @@ 77 :> {0, 1} @@ 75 :> {2, 3}
  @@ 83 :> {1, 2} @@ 87 :> {0, 3} @@ 72 :> {0, 1, 3} @@ 66 :> {1, 2, 3}
  @@ 86 :> {0, 1, 2} @@ 68 :> {0, 2, 3} @@ 78 :> {0, 1, 2, 3}

Upper(b) == IF b \in 97..122 THEN b - 32 ELSE b

ValidConsensus(c) ==
  /\ Len(c) \in 1..50
  /\ \A j \in 1..Len(c) : Upper(c[j]) \in DOMAIN Iupac

Matches(c, seq, i) ==
  \A j \in 1..Len(c) : char2index[seq[i + j] + 1] \in Iupac[Upper(c[j])]

ConsensusRun == has_consensus /\ ~has_motifs /\ ValidConsensus(input.one[1])

StandardArgs ==
  [InitArgs EXCEPT !.bkg = UniformBkg, !.pvalue = ROne, !.nsites = 1000,
                   !.pseudocount = 1]

OptionsRejected ==
  \/ input.p # <<>> /\ input.p[1] = 0
  \/ input.n # <<>> /\ input.n[1] = 0
  \/ input.b # <<>> /\ ~ParseUserBkg(input.b[1]).ok

C8_WideMotifRejected ==
  /\ pc # "undefined"
  /\ \A m \in 1..Len(motifs) :
       Len(motifs[m].pwm) <= MaxPositions /\ Len(motifs[m].pwm_rc) <= MaxPositions

(***************************************************************************)
(* C9.  For every motif, cdf_size is size * (max - min) + 1, max and min   *)
(* being the fields complete_motifs sets.  Above 2,097,152 the run ends    *)
(* with a fatal error, no CDF is allocated and no window of that motif is  *)
(* scored; every CDF that is allocated has cdf_size <= 2,097,152.  A motif *)
(* whose size * (max - min) leaves the int (cells of a non-finite score)   *)
(* has no defined range and is left to C26.                                *)
(***************************************************************************)
CdfRange(M) == M.size * (M.max - M.min) + 1

C9_CdfSizeBound ==
  \A m \in {m \in 1..Len(motifs) : ~CdfSizeOverflow(motifs[m])} :
    LET M == motifs[m]
    IN  /\ M.cdf_size # 0 => M.cdf_size = CdfRange(M)
        /\ (m - 1 = motif_i /\ pc \in {"threshold", "scan", "print", "free"})
             => M.cdf.alloc /\ M.cdf_size = CdfRange(M)
        /\ M.cdf.alloc => M.cdf_size = CdfRange(M) /\ M.cdf_size <= 2097152
        /\ (MotifsReady \/ M.cdf_size # 0) /\ CdfRange(M) > 2097152
             => /\ ~M.cdf.alloc
                /\ \A h \in 1..Len(out) : out[h].motif_i # m - 1
                /\ motif_i <= m - 1
                /\ m - 1 = motif_i => pc \in {"seqs", "cdf", "exit_failure"}
                /\ M.cdf_size # 0 => pc = "exit_failure"

\* fill_cdf has refused a motif whose range is above the limit
C9_Witness ==
  /\ pc = "exit_failure"
  /\ \E m \in 1..Len(motifs) :
       /\ motifs[m].cdf_size > 2097152
       /\ motifs[m].cdf_size = CdfRange(motifs[m])
       /\ ~motifs[m].cdf.alloc

(***************************************************************************)
(* C10.  After check_and_load_bkg has accepted four values (of -b or of a  *)
(* MEME background line), args.bkg sums to 1 and each of its four entries  *)
(* is at least MIN_BKG_VALUE.                                              *)
(***************************************************************************)
C10_BkgNormalized ==
  /\ RSum4(args.bkg) = ROne
  /\ \A i \in 1..4 : RLeq(MIN_BKG_VALUE, args.bkg[i])

(***************************************************************************)
(* C11.  In a run on a motif file, the background used for the PWM scores  *)
(* and for the CDF of every motif is one vector, chosen by precedence: the *)
(* -b value if given (the background a MEME file declares is then          *)
(* ignored), else the background the MEME file declares, else 0.25 each;   *)
(* it is the same in every state from the first scored column on.  With -1 *)
(* the vector is 0.25 each, whatever -b says.                              *)
(***************************************************************************)
DeclaresBkg == has_motifs /\ input.m[1].fmt = "MEME" /\ input.m[1].bkg # <<>>

ChosenBkg ==
  IF input.b # <<>> THEN ParseUserBkg(input.b[1]).bkg
  ELSE IF DeclaresBkg THEN CheckAndLoadBkg(input.m[1].bkg).bkg
  ELSE UniformBkg

BkgInEffect(bkg) ==
  /\ args.bkg = bkg
  /\ \A m \in 1..Len(motifs) :
       motifs[m].cdf.alloc => motifs[m].cdf = FillCdf(motifs[m], bkg).motif.cdf

C11_BkgPrecedenceFileRuns ==
  MotifsReady =>
    IF has_consensus THEN BkgInEffect(UniformBkg)
    ELSE /\ BkgInEffect(ChosenBkg)
         /\ \A m \in 1..Len(motifs) :
              \E c \in NonFiniteInts :
                motifs[m].pwm =
                  LoadMotifsFile(input.m[1],
                                 WithNonFinite([args EXCEPT !.bkg = ChosenBkg], c)
                                ).motifs[m].pwm

\* a MEME file that declares a background, scanned with a different -b
C11_Witness ==
  /\ pc = "scan"
  /\ DeclaresBkg
  /\ input.b # <<>>
  /\ CheckAndLoadBkg(input.m[1].bkg).ok
  /\ CheckAndLoadBkg(input.m[1].bkg).bkg # args.bkg
  /\ args.bkg # UniformBkg
  /\ motifs[motif_i + 1].cdf.alloc

\* the statement for every run, -1 included: the -b value, if given, is the
\* background in effect
C11_BkgPrecedenceEveryRun ==
  MotifsReady => args.bkg = ChosenBkg

(***************************************************************************)
(* C12.  Every path that ends in badexit has released every allocation,    *)
(* the getline buffer of a file parser included, and closed the files when *)
(* it exits; so has a run that ends with exit status 0.                    *)
(***************************************************************************)
C12_AllReleasedAtExit ==
  pc \in {"exit_failure", "exit_success"} => heap = {}

\* the motifs of the file have been loaded and checked for equal names
MotifsNamed == has_motifs /\ ~has_consensus /\ pc \notin {"getopt", "motifs"}

\* the sequences have been loaded and checked for equal names
SeqsNamed == has_seqs /\ pc \in {"cdf", "threshold", "scan", "free", "stats", "close",
                                 "exit_success"}

\* the name of motif i in the file is the name of another motif of the file
SharedInFile(i) ==
  \E j \in 1..Len(input.m[1].motifs) :
    j # i /\ input.m[1].motifs[j].name = input.m[1].motifs[i].name

(***************************************************************************)
(* C13.  Motifs of a file that share a name: without -d the run aborts;    *)
(* with -d each of them is stored under its name in the file followed by   *)
(* __N<its 1-based index>_L<the line of its header>, as in foo__N1_L10,    *)
(* and a motif whose name is not shared keeps the name it was loaded with. *)
(***************************************************************************)
C13_SharedNamesSuffixed ==
  (MotifsNamed /\ pc # "undefined") =>
    LET defs == input.m[1].motifs
    IN  /\ ((\E i \in 1..Len(defs) : SharedInFile(i)) /\ ~input.d)
              => pc = "exit_failure"
        /\ (input.d /\ pc # "exit_failure")
              => \A i \in 1..Len(motifs) :
                   motifs[i].name =
                     IF SharedInFile(i)
                       THEN defs[i].name \o IntToCharArray(defs[i].line, i)
                       ELSE LoadMotifsFile(input.m[1],
                                           WithNonFinite(args, 0)).motifs[i].name

\* set_threshold has run for the motif of this turn, whose CDF is there
ThresholdSet == pc \in {"scan", "print", "free"} /\ motifs[motif_i + 1].cdf.alloc

\* the smallest p-value of the motif is more than 1.0001 times the -t value
BeyondAlpha(motif) ==
  RLess(RMul(<<10001, 10000>>, args.pvalue), Score2Pval(motif, motif.max_score))

(***************************************************************************)
(* C14.  A motif of a file whose smallest p-value, that of its largest     *)
(* score, divided by the -t value is more than 1.0001 has the threshold    *)
(* INT_MAX after set_threshold; no output line is ever written for a motif *)
(* with that threshold, whatever the sequences, and the run has not failed.*)
(***************************************************************************)
C14_UnreachableThreshold ==
  ~has_consensus =>
    /\ (ThresholdSet /\ BeyondAlpha(motifs[motif_i + 1]))
          => /\ motifs[motif_i + 1].threshold = INT_MAX
             /\ pc \notin {"exit_failure", "undefined"}
    /\ \A m \in 1..Len(motifs) :
          motifs[m].threshold = INT_MAX
            => \A k \in 1..Len(out) : out[k].motif_i # m - 1

\* the sequences of a run have been scanned for a motif beyond the -t
\* value, and each of them is at least as long as the motif
C14_Witness ==
  /\ ~has_consensus
  /\ pc = "free"
  /\ has_seqs
  /\ motifs[motif_i + 1].cdf.alloc
  /\ BeyondAlpha(motifs[motif_i + 1])
  /\ \A k \in 1..Len(seqs) : Len(seqs[k].seq) >= motifs[motif_i + 1].size

\* |s - 1| for the sum s of a row
OffOne(row) == RAbs(RSub(RSum4(row), ROne))

\* the rows of motif m of the file, which is a MEME or a HOMER file
PpmRowsOf(m) == input.m[1].motifs[m].rows

PpmFile == has_motifs /\ ~has_consensus /\ input.m[1].fmt \in {"MEME", "HOMER"}

(***************************************************************************)
(* C15.  A row of four probabilities of a MEME or HOMER file, of sum s:    *)
(* when |s - 1| > 0.1 the run fails while it loads the motifs; when        *)
(* 0.02 < |s - 1| <= 0.1 the scores of the row are those of the four       *)
(* values divided by s; when |s - 1| <= 0.02 they are those of the four    *)
(* values as they stand.                                                   *)
(***************************************************************************)
C15_RowSumClasses ==
  (PpmFile /\ pc \notin {"getopt", "motifs", "undefined"}) =>
    /\ (\E m \in 1..Len(input.m[1].motifs) : \E k \in 1..Len(PpmRowsOf(m)) :
           RLess(<<1, 10>>, OffOne(PpmRowsOf(m)[k])))
          => pc = "exit_failure" /\ Len(motifs) <= Len(input.m[1].motifs)
                                 /\ \A m \in 1..Len(motifs) : motifs[m].cdf_size = 0
    /\ \A m \in 1..Len(motifs) : \A k \in 1..Len(motifs[m].pwm) :
          LET row == PpmRowsOf(m)[k]
              s   == RSum4(row)
          IN  ~RLess(<<1, 10>>, OffOne(row)) =>
                \A i \in 1..4 : \E c \in NonFiniteInts :
                  motifs[m].pwm[k][i] =
                    CalcScore(IF RLess(<<2, 100>>, OffOne(row)) THEN RDiv(row[i], s)
                              ELSE row[i],
                              args.bkg[i], args.nsites, args.pseudocount, c)

\* a motif with a row of each class below 0.1 has been loaded: sum within
\* 0.02 of 1, and sum between 0.02 and 0.1 away from 1
C15_Witness ==
  /\ PpmFile
  /\ pc = "scan"
  /\ \E k \in 1..Len(PpmRowsOf(1)) :
       /\ RLess(<<2, 100>>, OffOne(PpmRowsOf(1)[k]))
       /\ ~RLess(<<1, 10>>, OffOne(PpmRowsOf(1)[k]))
  /\ \E k \in 1..Len(PpmRowsOf(1)) : ~RLess(<<2, 100>>, OffOne(PpmRowsOf(1)[k]))

\* the index the letters stand for: A, C, G, T or U in either case, 4 for
\* every other byte
LetterIndex(b) ==
  IF b \in {65, 97} THEN 0
  ELSE IF b \in {67, 99} THEN 1
  ELSE IF b \in {71, 103} THEN 2
  ELSE IF b \in {84, 116, 85, 117} THEN 3
  ELSE 4

(***************************************************************************)
(* C16.  char2index gives an index for each of the 256 byte values: 0 for  *)
(* A and a, 1 for C and c, 2 for G and g, 3 for T, t, U and u, and 4 for   *)
(* every other byte; the score of every "+" line written is the sum of the *)
(* cells these indices select for the bytes of its match.                  *)
(***************************************************************************)
C16_Char2IndexTotal ==
  /\ Len(char2index) = 256
  /\ \A b \in 0..255 : Char2Index(b) = LetterIndex(b)
  /\ \A k \in 1..Len(out) :
        out[k].strand = "+" =>
          LET M == motifs[out[k].motif_i + 1]
          IN  out[k].score =
                RangeSum([j \in 1..M.size |->
                            M.pwm[j][LetterIndex(out[k].match[j]) + 1]], 1, M.size)

\* a line was written for a window with a lower-case letter
C16_Witness ==
  \E k \in 1..Len(out) :
    /\ out[k].strand = "+"
    /\ \E j \in 1..Len(out[k].match) : out[k].match[j] = 103

\* the bytes of the sequence lines from line j on, up to the next ">" line
\* or the end of the file: each line without its carriage return and
\* without its spaces
RECURSIVE BodyFrom(_, _)
BodyFrom(lines, j) ==
  IF j > Len(lines) THEN <<>>
  ELSE IF Len(lines[j]) > 0 /\ lines[j][1] = 62 THEN <<>>
  ELSE SelectSeq(lines[j], LAMBDA b : b \notin {32, 13}) \o BodyFrom(lines, j + 1)

(***************************************************************************)
(* C17.  Every sequence stored from a FASTA file holds the bytes of its    *)
(* lines in their order, spaces and line ends left out and nothing else    *)
(* changed, and its length is their number, whether or not the last line   *)
(* of the file ends with a line feed.                                      *)
(***************************************************************************)
C17_StoredSequence ==
  SeqsNamed =>
    \A k \in 1..Len(seqs) : seqs[k].seq = BodyFrom(input.s[1], seqs[k].line_num + 1)

\* a name up to its first space or tab
RECURSIVE FirstWord(_)
FirstWord(name) ==
  IF name = <<>> \/ name[1] \in {32, 9} THEN <<>>
  ELSE <<name[1]>> \o FirstWord(Tail(name))

\* the name on the ">" line of sequence k
HeaderName(k) == Tail(input.s[1][seqs[k].line_num])

(***************************************************************************)
(* C18.  With -r the name of every sequence and of every motif of a JASPAR *)
(* file is stored up to its first white space; without -r both are stored  *)
(* as they stand on their lines.                                           *)
(***************************************************************************)
C18_NamesTrimmed ==
  /\ (SeqsNamed /\ ~input.d) =>
        \A k \in 1..Len(seqs) :
          seqs[k].name = IF input.r THEN FirstWord(HeaderName(k)) ELSE HeaderName(k)
  /\ (MotifsNamed /\ input.m[1].fmt = "JASPAR" /\ ~input.d /\ pc # "undefined") =>
        \A m \in 1..Len(motifs) :
          motifs[m].name = IF input.r THEN FirstWord(input.m[1].motifs[m].name)
                           ELSE input.m[1].motifs[m].name

\* the motifs whose CDF is allocated
WithCdf == {m \in 1..Len(motifs) : motifs[m].cdf.alloc}

\* the number of output lines of motif m
LinesOf(m) == Cardinality({k \in 1..Len(out) : out[k].motif_i = m - 1})

(***************************************************************************)
(* C19.  In every step of a run: at most one motif has an allocated CDF;   *)
(* a CDF is allocated only by the fill_cdf of the motif whose turn it is,  *)
(* before any line of that motif is written and with set_threshold as the  *)
(* next step; lines of a motif are written only while its CDF is allocated *)
(* and after set_threshold; a CDF is freed only when every sequence has    *)
(* been scanned; and the loop never turns back to a motif it has left.     *)
(***************************************************************************)
C19_MotifLifecycle ==
  [][/\ Cardinality(WithCdf') <= 1
     /\ motif_i' >= motif_i
     /\ \A m \in WithCdf' \ WithCdf :
          /\ pc = "cdf" /\ pc' = "threshold"
          /\ m = motif_i + 1
          /\ LinesOf(m) = 0
     /\ pc = "threshold" =>
          /\ pc' \in {"scan", "print"}
          /\ motif_i + 1 \in WithCdf
          /\ out' = out
     /\ \A m \in 1..Len(motifs) :
          LinesOf(m)' # LinesOf(m) =>
            /\ pc = "scan"
            /\ m = motif_i + 1
            /\ m \in WithCdf /\ m \in WithCdf'
     /\ \A m \in WithCdf \ WithCdf' :
          /\ pc = "free"
          /\ has_seqs => seq_i = Len(seqs)
          /\ m = motif_i + 1 /\ motif_i' = m
          /\ out' = out
    ]_vars

\* the second motif of a file is scanned with its CDF allocated, after the
\* lines of the first motif were written and its CDF freed
C19_Witness ==
  /\ pc = "scan"
  /\ motif_i = 1
  /\ WithCdf = {2}
  /\ LinesOf(1) > 0
  /\ seq_i = 1
  /\ LinesOf(2) > 0

(***************************************************************************)
(* C20.  Every stored name of a motif or of a sequence is at most 255      *)
(* bytes long, so that its NUL is inside the 256 bytes of its buffer,      *)
(* whatever the length of the name in the input; a name written past the   *)
(* buffer is stored here with the bytes that were written.                 *)
(***************************************************************************)
C20_NamesBounded ==
  /\ \A m \in 1..Len(motifs) : Len(motifs[m].name) <= MAX_NAME_SIZE - 1
  /\ \A k \in 1..Len(seqs) : Len(seqs[k].name) <= SEQ_NAME_MAX_CHAR - 1

(***************************************************************************)
(* Properties of the CDF, of the threshold and of the extremes.            *)
(***************************************************************************)
\* the widest motif whose base tuples are enumerated one by one
EnumW == MaxW + 1

\* the cells of the CDF that are compared one by one when the CDF has more
EnumR == 64

\* the probability that the sum of the shifted scores of the positions
\* i..W-1, each base drawn from bkg on its own, is at least need
RECURSIVE TailProb(_, _, _, _)
TailProb(motif, bkg, i, need) ==
  IF i >= motif.size THEN (IF need <= 0 THEN ROne ELSE RZero)
  ELSE LET p(j) == RMul(bkg[j], TailProb(motif, bkg, i + 1,
                                         need - (GetScoreI(motif, j - 1, i) - motif.min)))
       IN  RAdd(RAdd(p(1), p(2)), RAdd(p(3), p(4)))

\* the shifted scores the positions i..W-1 can sum to
RECURSIVE ShiftedSums(_, _)
ShiftedSums(motif, i) ==
  IF i >= motif.size THEN {0}
  ELSE {GetScoreI(motif, j - 1, i) - motif.min + r :
          j \in 1..4, r \in ShiftedSums(motif, i + 1)}

\* the indices at which the CDF is compared: all of them for a short CDF,
\* else the two ends, every sum the scores can give and the indices next to
\* it
Breakpoints(motif) ==
  IF motif.cdf_size <= EnumR THEN 0..(motif.cdf_size - 1)
  ELSE {t \in {0, motif.cdf_size - 1}
              \cup UNION {{v - 1, v, v + 1} : v \in ShiftedSums(motif, 0)} :
          t >= 0 /\ t < motif.cdf_size}

\* fill_cdf has just returned for the motif of this turn
CdfFilled == pc = "threshold" /\ motifs[motif_i + 1].size <= EnumW

(***************************************************************************)
(* C21.  After fill_cdf, cdf[t] is the probability, each of the W          *)
(* positions drawing its base from the background on its own, that the     *)
(* score is at least W * min + t, for every index t of the CDF (compared   *)
(* at every index of a short CDF and at every step of a long one); the     *)
(* last cell is the probability of the largest sum, and the p-value of     *)
(* every line written is the cell at its score less W * min.               *)
(***************************************************************************)
C21_CdfIsTailProbability ==
  /\ CdfFilled =>
        \E M \in {motifs[motif_i + 1]} :
          /\ M.cdf_size = M.size * (M.max - M.min) + 1
          /\ \A t \in Breakpoints(M) : CdfAt(M, t) = TailProb(M, args.bkg, 0, t)
  /\ (pc = "scan" /\ motifs[motif_i + 1].size <= EnumW) =>
        \E M \in {motifs[motif_i + 1]} :
          \A k \in 1..Len(out) :
            out[k].motif_i = motif_i =>
              out[k].pvalue = TailProb(M, args.bkg, 0, out[k].score - M.size * M.min)

\* the CDF of a motif of two positions with unlike backgrounds is filled
C21_Witness ==
  /\ CdfFilled
  /\ motifs[motif_i + 1].size = 2
  /\ args.bkg # UniformBkg
  /\ Cardinality(ShiftedSums(motifs[motif_i + 1], 0)) > 4

\* the motifs whose CDF is allocated and is compared cell by cell
Compared == {m \in 1..Len(motifs) :
               /\ motifs[m].cdf.alloc
               /\ motifs[m].size <= EnumW \/ motifs[m].cdf_size <= EnumR}

FirstBelow(M) ==
  LET below == {t \in Breakpoints(M) : RLess(CdfAt(M, t), args.pvalue)}
  IN  IF below = {} THEN M.cdf_size
      ELSE CHOOSE t \in below : \A u \in below : t <= u

(***************************************************************************)
(* C23.  set_threshold finds the threshold field 0, as init_motif left it, *)
(* and leaves in it t* + W * min, t* being the smallest index of the CDF   *)
(* whose cell is below the -t value and the size of the CDF when no cell   *)
(* is, unless it marks the motif unreachable with INT_MAX.  (With -1 main  *)
(* replaces the threshold once set_threshold has returned.)                *)
(***************************************************************************)
C23_ThresholdFromFirstBelow ==
  /\ pc = "threshold" => motifs[motif_i + 1].threshold = 0
  /\ (ThresholdSet /\ ~has_consensus /\ motif_i + 1 \in Compared) =>
        \E M \in {motifs[motif_i + 1]} :
          M.threshold = IF BeyondAlpha(M) THEN INT_MAX
                        ELSE FirstBelow(M) + M.size * M.min

\* a threshold inside the range of the scores, on a CDF one of whose cells
\* equals the -t value
C23_Witness ==
  /\ ThresholdSet /\ ~has_consensus /\ motif_i + 1 \in Compared
  /\ \E M \in {motifs[motif_i + 1]} :
       /\ ~BeyondAlpha(M)
       /\ FirstBelow(M) > 0 /\ FirstBelow(M) < M.cdf_size
       /\ \E t \in Breakpoints(M) : CdfAt(M, t) = args.pvalue
       /\ M.min < 0

\* the scores of the windows of four-letter bases on the forward table of
\* a motif (rc FALSE) or on its reverse table (rc TRUE), from position i on
RECURSIVE WindowSums(_, _, _)
WindowSums(motif, rc, i) ==
  IF i >= motif.size THEN {0}
  ELSE {RowAt(IF rc THEN motif.pwm_rc ELSE motif.pwm, i)[j] + r :
          j \in 1..4, r \in WindowSums(motif, rc, i + 1)}

\* the largest (smallest) of the four base cells of each position, summed
ExtremeSum(motif, isMax) ==
  RangeSum(Table([k \in 1..motif.size |->
             LET cells == {GetScoreI(motif, j, k - 1) : j \in 0..3}
             IN  CHOOSE x \in cells :
                   \A y \in cells : IF isMax THEN y <= x ELSE x <= y]),
           1, motif.size)

(***************************************************************************)
(* C24.  set_threshold finds max_score and min_score 0 and leaves in them  *)
(* the sums over the positions of the largest and of the smallest of the   *)
(* four base cells, in the run that prints the motifs and in the run that  *)
(* scans; the score of every window of bases lies between them, on the     *)
(* forward table and on the reverse table.                                 *)
(***************************************************************************)
C24_ScoreExtremes ==
  /\ pc = "threshold" =>
        motifs[motif_i + 1].max_score = 0 /\ motifs[motif_i + 1].min_score = 0
  /\ ThresholdSet =>
        \E M \in {motifs[motif_i + 1]} :
          /\ M.max_score = ExtremeSum(M, TRUE)
          /\ M.min_score = ExtremeSum(M, FALSE)
          /\ M.size <= EnumW =>
                \A rc \in BOOLEAN : \A v \in WindowSums(M, rc, 0) :
                  M.min_score <= v /\ v <= M.max_score

\* two positions whose extremes lie in different columns, and a reverse
\* table that differs from the forward one
C24_Witness ==
  /\ ThresholdSet
  /\ \E M \in {motifs[motif_i + 1]} :
       /\ M.size = 2
       /\ M.min_score < 0 /\ 0 < M.max_score
       /\ M.max_score \in WindowSums(M, TRUE, 0)
       /\ M.min_score \in WindowSums(M, FALSE, 0)
       /\ ScoreSubseq(M, <<65, 65>>, 0) \notin {M.min_score, M.max_score}
       /\ ScoreSubseq(M, <<65, 67>>, 0) # ScoreSubseqRc(M, <<65, 67>>, 0)

\* the base cells of the positions of a motif
BaseCells(motif) == {GetScoreI(motif, j, k) : j \in 0..3, k \in 0..(motif.size - 1)}

AddFits(a, b) == IF b >= 0 THEN a <= INT_MAX - b ELSE a >= INT_MIN - b

\* a * n is an int, for a positive n
MulFits(a, n) == a <= INT_MAX \div n /\ a >= -(INT_MAX \div n)

\* the running sum of score_subseq (rc FALSE) or score_subseq_rc (rc TRUE)
\* stays an int from position i on for every window, lo and hi being the
\* smallest and the largest sum of the positions before i: some window takes
\* the smallest cell of every position, and some window the largest
RECURSIVE RunningSumFits(_, _, _, _, _)
RunningSumFits(motif, rc, i, lo, hi) ==
  IF i >= motif.size THEN TRUE
  ELSE LET row == RowAt(IF rc THEN motif.pwm_rc ELSE motif.pwm, i)
           cells == {row[j] : j \in 1..5}
           mn == CHOOSE x \in cells : \A y \in cells : x <= y
           mx == CHOOSE x \in cells : \A y \in cells : y <= x
       IN  /\ AddFits(lo, mn) /\ AddFits(hi, mx)
           /\ RunningSumFits(motif, rc, i + 1, lo + mn, hi + mx)

\* lines 476-478 of set_threshold stay within int: 0 - min, its product
\* with size, and threshold_i, at most cdf_size, minus the product
ThresholdFits(motif) ==
  /\ motif.min > INT_MIN
  /\ motif.size > 0 => MulFits(-motif.min, motif.size)
  /\ ~CdfSizeOverflow(motif)
  /\ AddFits(motif.size * (motif.max - motif.min) + 1, motif.size * motif.min)

(***************************************************************************)
(* C26.  For every motif of at most 50 positions that load_motifs or       *)
(* add_consensus_motif has built, the running sum of score_subseq and of   *)
(* score_subseq_rc stays within the 32-bit signed integers for every       *)
(* window, ambiguous bytes included, and so does the arithmetic of lines   *)
(* 476-478 of set_threshold.  Fails: a negative -p is accepted, the        *)
(* logarithm of calc_score is then not finite, and where its conversion    *)
(* gives INT_MIN the first addition leaves the range.                      *)
(***************************************************************************)
C26_SumsStayInInt ==
  MotifsReady =>
    \A m \in 1..Len(motifs) :
      motifs[m].size <= MaxPositions =>
        /\ \A rc \in BOOLEAN : RunningSumFits(motifs[m], rc, 0, 0, 0)
        /\ ThresholdFits(motifs[m])

(***************************************************************************)
(* C27.  free is only ever handed a pointer to an allocated buffer or a    *)
(* null pointer, on the way to exit status 0 and on every way through      *)
(* badexit.  Fails: free_motifs frees the cdf that fill_cdf has not yet    *)
(* assigned when its size test fails, and free_seqs frees the seqs[i] that *)
(* load_seqs never assigned for a header without residues; neither pointer *)
(* was ever initialised.                                                   *)
(***************************************************************************)
C27_FreesOnlyAllocated == "wild" \notin heap

C29_NamesDistinctAfterDedup ==
  /\ (MotifsNamed /\ input.d /\ pc \notin {"exit_failure", "undefined"}) =>
        \A i, j \in 1..Len(motifs) : i # j => motifs[i].name # motifs[j].name
  /\ (SeqsNamed /\ input.d) =>
        \A i, j \in 1..Len(seqs) : i # j => seqs[i].name # seqs[j].name

\* load_motifs has been left, with a MEME file that has a line of file.again
MemeAgainRead ==
  /\ has_motifs /\ ~has_consensus /\ pc \notin {"getopt", "motifs"}
  /\ MemeAgain(input.m[1]) # <<>>

(***************************************************************************)
(* C30.  A MEME file with a second "Background letter frequencies",        *)
(* ALPHABET or strands line, or with one of them behind a MOTIF line, ends *)
(* the run in a fatal error at that line, no motif behind the line being   *)
(* read, and the freed line buffer is not used again.  Fails: at a second  *)
(* background line read_meme frees the buffer, prints its message and      *)
(* reads the next line into the freed buffer.                              *)
(***************************************************************************)
C30_RepeatedMemeLinesFatal ==
  MemeAgainRead =>
    /\ pc = "exit_failure"
    /\ Len(motifs) <= MemeAgain(input.m[1])[1].after

=============================================================================
